---- MODULE Spec2Model ----
(***************************************************************************)
(* A model of the AI-Evaluator backend: the response parsers, the analysis *)
(* service and the three HTTP routes of backend/src.                       *)
(*                                                                         *)
(* Text.  A text is a sequence of symbols.  A symbol is one character      *)
(* (a digit, a blank, a line break, a punctuation mark) or one word of the *)
(* reply vocabulary taken as a unit: "SCORE:", "good", "FENCE" for the     *)
(* three backquotes that open or close a code block, and "<bullet>" for    *)
(* the character U+2022.                                                   *)
(* Numbers (scores, maxScore) are fixed-point with one decimal: the model  *)
(* value 755 stands for 75.5, so that Math.round has something to round.   *)
(*                                                                         *)
(* Spec is the server with its routes; SpecScore, SpecSections and         *)
(* SpecBlocks call the parsers on every reply built from a few lines.      *)
(***************************************************************************)
EXTENDS Integers, Sequences, FiniteSets, TLC

VARIABLES
    responseText,   \* the AI reply handed to a parser (a text)
    maxScore,       \* the parser's maxScore argument (in tenths)
    parsed,         \* what each parser returned for (responseText, maxScore)
    requests,       \* the HTTP requests: each one's handler state and response
    summaries,      \* the rows of the Summary table, in insertion order
    nextId,         \* the SERIAL sequence behind Summary.id
    now,            \* the database clock behind Summary.createdAt
    app             \* the frontend App component: its state and its calls in flight

parserVars == <<responseText, maxScore, parsed>>

serverVars == <<requests, summaries, nextId, now, app>>

vars == <<responseText, maxScore, parsed, requests, summaries, nextId, now, app>>

(***************************************************************************)
(* Characters and JavaScript string primitives                             *)
(***************************************************************************)
Digits == {"0", "1", "2", "3", "4", "5", "6", "7", "8", "9"}

SpaceChars == {" ", "\n"}

\* The word symbols: units made of letters only.
Letters ==
    {"good", "x", "js", "cpp", "c", "int", "logic", "Logic", "style", "bogus",
     "high", "HIGH", "low", "urgent", "hello", "definitely", "Update", "update",
     "SELECT", "select", "const", "def", "class", "function", "import", "private",
     "f", "div"}

\* The class \w of the regular expressions.
WordChars == Digits \cup Letters \cup {"_"}

IsDigit(c) == c \in Digits

IsSpace(c) == c \in SpaceChars

DigitVal(c) ==
    CASE c = "0" -> 0 [] c = "1" -> 1 [] c = "2" -> 2 [] c = "3" -> 3
      [] c = "4" -> 4 [] c = "5" -> 5 [] c = "6" -> 6 [] c = "7" -> 7
      [] c = "8" -> 8 [] c = "9" -> 9

\* String.prototype.toLowerCase, symbol by symbol.
Lower(c) ==
    CASE c \in {"SCORE:", "Score:"} -> "score:"
      [] c \in {"CATEGORY:", "Category:"} -> "category:"
      [] c \in {"FEEDBACK:", "Feedback:"} -> "feedback:"
      [] c \in {"STRENGTHS:", "Strengths:"} -> "strengths:"
      [] c \in {"IMPROVEMENTS:", "Improvements:"} -> "improvements:"
      [] c \in {"CORRECTED_CODE:", "Corrected_Code:"} -> "corrected_code:"
      [] c \in {"OPTIMIZED_CODE:", "Optimized_Code:"} -> "optimized_code:"
      [] c \in {"CODE_ISSUES:", "Code_Issues:"} -> "code_issues:"
      [] c \in {"OUT OF", "Out of"} -> "out of"
      [] c = "TYPE:" -> "type:"
      [] c = "SEVERITY:" -> "severity:"
      [] c = "LINE:" -> "line:"
      [] c = "DESCRIPTION:" -> "description:"
      [] c = "SUGGESTION:" -> "suggestion:"
      [] c = "Logic" -> "logic"
      [] c = "SELECT" -> "select"
      [] c = "Update" -> "update"
      [] c = "HIGH" -> "high"
      [] OTHER -> c

\* The number of characters a symbol stands for (String.prototype.length).
CharLen(c) ==
    CASE Lower(c) = "score:" -> 6
      [] Lower(c) = "category:" -> 9
      [] Lower(c) = "feedback:" -> 9
      [] Lower(c) = "strengths:" -> 10
      [] Lower(c) = "improvements:" -> 13
      [] Lower(c) = "corrected_code:" -> 15
      [] Lower(c) = "optimized_code:" -> 15
      [] Lower(c) = "code_issues:" -> 12
      [] Lower(c) = "out of" -> 6
      [] c = "good" -> 4
      [] c = "FENCE" -> 3
      [] OTHER -> 1

RECURSIVE StrLength(_)
StrLength(s) == IF s = <<>> THEN 0 ELSE CharLen(Head(s)) + StrLength(Tail(s))

MinOf(S) == CHOOSE m \in S : \A x \in S : m <= x

MaxOf(S) == CHOOSE m \in S : \A x \in S : m >= x

\* The end of the longest run of symbols of set S that starts at index i:
\* the index of the first symbol at or after i that is not in S.
RunEnd(s, i, S) ==
    LET stops == {j \in i..Len(s) : s[j] \notin S}
    IN  IF stops = {} THEN Len(s) + 1 ELSE MinOf(stops)

\* String.prototype.trim
Trim(s) ==
    LET keep == {j \in 1..Len(s) : ~IsSpace(s[j])}
    IN  IF keep = {} THEN <<>> ELSE SubSeq(s, MinOf(keep), MaxOf(keep))

\* String.prototype.split('\n')
RECURSIVE SplitLines(_)
SplitLines(s) ==
    LET breaks == {j \in 1..Len(s) : s[j] = "\n"}
    IN  IF breaks = {} THEN <<s>>
        ELSE <<SubSeq(s, 1, MinOf(breaks) - 1)>>
                \o SplitLines(SubSeq(s, MinOf(breaks) + 1, Len(s)))

\* Array.prototype.join(sep)
RECURSIVE Join(_, _)
Join(parts, sep) ==
    IF parts = <<>> THEN <<>>
    ELSE IF Len(parts) = 1 THEN parts[1]
    ELSE parts[1] \o sep \o Join(Tail(parts), sep)

\* responseText.split('\n').map(line => line.trim()).filter(line => line.length > 0)
NonEmpty(line) == Len(line) > 0

TrimmedLines(text) ==
    LET raw == SplitLines(text)
    IN  SelectSeq([i \in 1..Len(raw) |-> Trim(raw[i])], NonEmpty)

\* line.toLowerCase().startsWith(marker), marker one of the section markers
StartsWith(line, marker) == Len(line) > 0 /\ Lower(line[1]) = marker

(***************************************************************************)
(* Score extraction (the same code in both parsers)                        *)
(***************************************************************************)
NoMatch == [matched |-> FALSE, int |-> <<>>, frac |-> <<>>]

\* The regular expression group (\d+(?:\.\d+)?) tried at index p of s: the
\* digits before and after the decimal point.  withFrac = FALSE is the
\* alternative the engine backtracks to, without the optional part.
NumberAt(s, p, withFrac) ==
    LET e1 == RunEnd(s, p, Digits)
        hasFrac == withFrac /\ e1 + 1 <= Len(s) /\ s[e1] = "." /\ IsDigit(s[e1 + 1])
        e2 == IF hasFrac THEN RunEnd(s, e1 + 1, Digits) ELSE e1
    IN  [int |-> SubSeq(s, p, e1 - 1),
         frac |-> IF hasFrac THEN SubSeq(s, e1 + 1, e2 - 1) ELSE <<>>,
         end |-> e2]

Capture(n) == [matched |-> TRUE, int |-> n.int, frac |-> n.frac]

\* /SCORE:\s*(\d+(?:\.\d+)?)/i   (scorePatterns[0]; scorePatterns[1] is the same
\* expression, /Score:.../i, under the i flag)
MatchLabelled(line) ==
    LET starts == {p \in 1..Len(line) :
                      /\ Lower(line[p]) = "score:"
                      /\ LET j == RunEnd(line, p + 1, SpaceChars)
                         IN  j <= Len(line) /\ IsDigit(line[j])}
    IN  IF starts = {} THEN NoMatch
        ELSE Capture(NumberAt(line, RunEnd(line, MinOf(starts) + 1, SpaceChars), TRUE))

\* what must follow the number in /(\d+(?:\.\d+)?)\/\d+/
SlashAt(s, e) == e + 1 <= Len(s) /\ s[e] = "/" /\ IsDigit(s[e + 1])

\* what must follow the number in /(\d+(?:\.\d+)?)\s*(?:out of|\/)\s*\d+/i
OutOfAt(s, e) ==
    LET j == RunEnd(s, e, SpaceChars)
    IN  /\ j <= Len(s)
        /\ Lower(s[j]) \in {"out of", "/"}
        /\ LET k == RunEnd(s, j + 1, SpaceChars)
           IN  k <= Len(s) /\ IsDigit(s[k])

\* The leftmost match of a number followed by a slash (scorePatterns[2]) or by
\* `out of` or a slash among blanks (outOf, scorePatterns[3]); at one start the
\* engine prefers the number with its decimals and backtracks to the one without.
MatchNumberThen(line, outOf) ==
    LET follows(e) == IF outOf THEN OutOfAt(line, e) ELSE SlashAt(line, e)
        ok(p, f) == IsDigit(line[p]) /\ follows(NumberAt(line, p, f).end)
        starts == {p \in 1..Len(line) : ok(p, TRUE) \/ ok(p, FALSE)}
    IN  IF starts = {} THEN NoMatch
        ELSE LET p == MinOf(starts)
             IN  Capture(NumberAt(line, p, ok(p, TRUE)))

\* line.match(scorePatterns[k - 1])
ScorePattern(k, line) ==
    CASE k = 1 -> MatchLabelled(line)
      [] k = 2 -> MatchLabelled(line)
      [] k = 3 -> MatchNumberThen(line, FALSE)
      [] k = 4 -> MatchNumberThen(line, TRUE)

NumPatterns == 4

RECURSIVE IntVal(_)
IntVal(ds) == IF ds = <<>> THEN 0 ELSE IntVal(SubSeq(ds, 1, Len(ds) - 1)) * 10 + DigitVal(ds[Len(ds)])

\* An integer as a model number (in tenths).
Num(n) == n * 10

\* parseInt(match[1]) in the place of Math.round(parseFloat(match[1])): the
\* decimals are cut off.
TruncParseFloat(m) == Num(IntVal(m.int))

\* Math.round(parseFloat(match[1])): half rounds up.
RoundParseFloat(m) ==
    Num(IntVal(m.int) + (IF m.frac # <<>> /\ DigitVal(m.frac[1]) >= 5 THEN 1 ELSE 0))

\* Math.min
MathMin(a, b) == IF a <= b THEN a ELSE b

\* The inner loop without Math.min: the rounded number is taken as it is.
LineScoreUnclamped(line, score, max) ==
    LET hits == {k \in 1..NumPatterns : ScorePattern(k, line).matched}
    IN  IF hits = {} THEN score
        ELSE RoundParseFloat(ScorePattern(MinOf(hits), line))

\* The inner loop over scorePatterns for one line: the first pattern that matches
\* sets the score; without a match the score is left as it was.
LineScore(line, score, max) ==
    LET hits == {k \in 1..NumPatterns : ScorePattern(k, line).matched}
    IN  IF hits = {} THEN score
        ELSE MathMin(RoundParseFloat(ScorePattern(MinOf(hits), line)), max)

\* The outer loop without its break: the last matching line sets the score.
RECURSIVE ScanScoreNoBreak(_, _, _, _)
ScanScoreNoBreak(lines, i, score, max) ==
    IF i > Len(lines) THEN score
    ELSE ScanScoreNoBreak(lines, i + 1, LineScore(lines[i], score, max), max)

\* The outer loop: for (const line of lines) { ...; if (score > 0) break; }
RECURSIVE ScanScore(_, _, _, _)
ScanScore(lines, i, score, max) ==
    IF i > Len(lines) THEN score
    ELSE LET s == LineScore(lines[i], score, max)
         IN  IF s > 0 THEN s ELSE ScanScore(lines, i + 1, s, max)

\* The two loops started from the catch block's default, let score = 50.
ExtractScoreFrom50(lines, max) == ScanScore(lines, 1, Num(50), max)

\* The two loops with the catch block's 50 for a reply without any score token.
ExtractScoreOrFallback(lines, max) ==
    IF \A i \in 1..Len(lines) : \A k \in 1..NumPatterns : ~ScorePattern(k, lines[i]).matched
        THEN Num(50)
    ELSE ScanScore(lines, 1, 0, max)

\* let score = 0; ... the two loops
ExtractScore(lines, max) == ScanScore(lines, 1, 0, max)

(***************************************************************************)
(* Sections: category, feedback, strengths, improvements                   *)
(***************************************************************************)
\* lines.findIndex(line => line.toLowerCase().startsWith(marker)); 0 for -1
FindIndex(lines, marker) ==
    LET hits == {i \in 1..Len(lines) : StartsWith(lines[i], marker)}
    IN  IF hits = {} THEN 0 ELSE MinOf(hits)

\* line.replace(/<marker>\s*/i, ''): the first occurrence of the marker and the
\* blanks after it are removed.
RemoveMarker(line, marker) ==
    LET hits == {p \in 1..Len(line) : Lower(line[p]) = marker}
    IN  IF hits = {} THEN line
        ELSE LET p == MinOf(hits)
             IN  SubSeq(line, 1, p - 1)
                    \o SubSeq(line, RunEnd(line, p + 1, SpaceChars), Len(line))

\* An optional value: <<>> is undefined (or an omitted key), <<v>> is v.
None == <<>>

Some(v) == <<v>>

\* const categoryLine = lines.find(...); categoryLine?.replace(...).trim()
ExtractCategory(lines) ==
    LET i == FindIndex(lines, "category:")
    IN  IF i = 0 THEN None ELSE Some(Trim(RemoveMarker(lines[i], "category:")))

\* The markers that end the feedback loop of each parser.
FeedbackStopsCode ==
    {"strengths:", "improvements:", "corrected_code:", "optimized_code:", "code_issues:"}

FeedbackStopsGeneric == {"strengths:", "improvements:", "score:"}

StartsWithAny(line, markers) == \E m \in markers : StartsWith(line, m)

\* The index of the first line after `from` that starts with one of the
\* markers (where the loop breaks), Len(lines) + 1 if there is none.
BreakIndex(lines, from, markers) ==
    LET hits == {i \in (from + 1)..Len(lines) : StartsWithAny(lines[i], markers)}
    IN  IF hits = {} THEN Len(lines) + 1 ELSE MinOf(hits)

\* The feedback block: the rest of the feedback line when the line is longer
\* than 'feedback:', then every line up to the break, joined by blanks.
ExtractFeedback(lines, stops) ==
    LET idx == FindIndex(lines, "feedback:")
        first == IF StrLength(lines[idx]) > StrLength(<<"feedback:">>)
                    THEN <<RemoveMarker(lines[idx], "feedback:")>>
                    ELSE <<>>
        rest == SubSeq(lines, idx + 1, BreakIndex(lines, idx, stops) - 1)
    IN  IF idx = 0 THEN <<>> ELSE Trim(Join(first \o rest, <<" ">>))

\* line.startsWith('-') || line.startsWith(<bullet>) || line.match(/^\d+\./)
IsBullet(line) ==
    /\ Len(line) > 0
    /\ \/ line[1] \in {"-", "<bullet>"}
       \/ LET e == RunEnd(line, 1, Digits) IN e > 1 /\ e <= Len(line) /\ line[e] = "."

\* line.replace(/^[-<bullet>\d.\s]+/, '').trim()
StripBullet(line) ==
    Trim(SubSeq(line, RunEnd(line, 1, {"-", "<bullet>", "."} \cup Digits \cup SpaceChars), Len(line)))

\* The loop of a list section: from the line after the marker to the break,
\* the bullet lines, each with its bullet stripped.
RECURSIVE BulletsIn(_, _, _)
BulletsIn(lines, i, end) ==
    IF i >= end THEN <<>>
    ELSE (IF IsBullet(lines[i]) THEN <<StripBullet(lines[i])>> ELSE <<>>)
            \o BulletsIn(lines, i + 1, end)

ExtractList(lines, marker, stops) ==
    LET idx == FindIndex(lines, marker)
    IN  IF idx = 0 THEN <<>>
        ELSE BulletsIn(lines, idx + 1, BreakIndex(lines, idx, stops))

StrengthsStopsCode ==
    {"improvements:", "corrected_code:", "optimized_code:", "code_issues:"}

StrengthsStopsGeneric == {"improvements:"}

ImprovementsStopsCode == {"corrected_code:", "optimized_code:", "code_issues:"}

ImprovementsStopsGeneric == {}

(***************************************************************************)
(* Code sections (parseCodeAnalysisResponse only)                          *)
(***************************************************************************)
\* responseText.match(/<MARKER>\s*```[\w]*\n([\s\S]*?)```/i) on the raw reply:
\* where the lazy group starts and ends, for each start of the marker at
\* which the expression matches.
BlockAt(text, p, marker) ==
    LET j == RunEnd(text, p + 1, SpaceChars)
        k == RunEnd(text, j + 1, WordChars)
        closes == {c \in (k + 1)..Len(text) : text[c] = "FENCE"}
    IN  [ok |-> /\ Lower(text[p]) = marker
                /\ j <= Len(text) /\ text[j] = "FENCE"
                /\ k <= Len(text) /\ text[k] = "\n"
                /\ closes # {},
         from |-> k + 1,
         to |-> IF closes = {} THEN k ELSE MinOf(closes) - 1]

\* let correctedCode = ''; if (match) correctedCode = match[1].trim();
ExtractBlock(text, marker) ==
    LET starts == {p \in 1..Len(text) : BlockAt(text, p, marker).ok}
    IN  IF starts = {} THEN <<>>
        ELSE LET b == BlockAt(text, MinOf(starts), marker)
             IN  Trim(SubSeq(text, b.from, b.to))

\* ...(correctedCode && { correctedCode }), ...(codeIssues.length > 0 &&
\* { codeIssues }): the key is there only for a non-empty string or list.
WhenTruthy(str) == IF str = <<>> THEN None ELSE Some(str)

\* The issue expression tried at index p of a line:
\* /TYPE:\s*(\w+)\s*\|\s*SEVERITY:\s*(\w+)(?:\s*\|\s*LINE:\s*(\d+))?\s*\|\s*
\*  DESCRIPTION:\s*([^|]+)\s*\|\s*SUGGESTION:\s*(.+)/i
Skip(s, i) == RunEnd(s, i, SpaceChars)

Is(s, i, sym) == i <= Len(s) /\ Lower(s[i]) = sym

IssueAt(s, p) ==
    LET t1 == Skip(s, p + 1)
        t2 == RunEnd(s, t1, WordChars)
        bar1 == Skip(s, t2)
        sev == Skip(s, bar1 + 1)
        v1 == Skip(s, sev + 1)
        v2 == RunEnd(s, v1, WordChars)
        \* the optional group (?:\s*\|\s*LINE:\s*(\d+))?
        lbar == Skip(s, v2)
        lmark == Skip(s, lbar + 1)
        l1 == Skip(s, lmark + 1)
        l2 == RunEnd(s, l1, Digits)
        Tail5(from) ==
            LET bar2 == Skip(s, from)
                desc == Skip(s, bar2 + 1)
                d2 == RunEnd(s, desc + 1, {s[i] : i \in 1..Len(s)} \ {"|"})
                sug == Skip(s, d2 + 1)
            IN  [ok |-> /\ Is(s, bar2, "|") /\ Is(s, desc, "description:")
                        /\ d2 > desc + 1 /\ Is(s, d2, "|")
                        /\ Is(s, sug, "suggestion:") /\ sug < Len(s),
                 description |-> Trim(SubSeq(s, desc + 1, d2 - 1)),
                 suggestion |-> Trim(SubSeq(s, sug + 1, Len(s)))]
        head == /\ Is(s, p, "type:") /\ t2 > t1
                /\ Is(s, bar1, "|") /\ Is(s, sev, "severity:") /\ v2 > v1
        withLine == /\ head /\ Is(s, lbar, "|") /\ Is(s, lmark, "line:") /\ l2 > l1
                    /\ Tail5(l2).ok
        tail == IF withLine THEN Tail5(l2) ELSE Tail5(v2)
    IN  [ok |-> head /\ tail.ok,
         issue |-> [type |-> [i \in 1..(t2 - t1) |-> Lower(s[t1 + i - 1])],
                    severity |-> [i \in 1..(v2 - v1) |-> Lower(s[v1 + i - 1])],
                    line |-> IF withLine THEN Some(IntVal(SubSeq(s, l1, l2 - 1))) ELSE None,
                    description |-> tail.description,
                    suggestion |-> tail.suggestion]]

\* The loop over the lines after code_issues:, which has no break.
RECURSIVE IssuesIn(_, _)
IssuesIn(lines, i) ==
    IF i > Len(lines) THEN <<>>
    ELSE LET line == lines[i]
             starts == {p \in 1..Len(line) : IssueAt(line, p).ok}
         IN  (IF line[1] \in {"-", "<bullet>"} /\ starts # {}
                 THEN <<IssueAt(line, MinOf(starts)).issue>>
                 ELSE <<>>)
                \o IssuesIn(lines, i + 1)

ExtractIssues(lines) ==
    LET idx == FindIndex(lines, "code_issues:")
    IN  IF idx = 0 THEN <<>> ELSE IssuesIn(lines, idx + 1)

(***************************************************************************)
(* The two parsers                                                         *)
(***************************************************************************)
\* a || b on strings
OrElse(str, dflt) == IF str = <<>> THEN dflt ELSE str

\* list.length > 0 ? list : [placeholder]
OrPlaceholder(list, placeholder) == IF Len(list) > 0 THEN list ELSE <<placeholder>>

\* The try block of parseCodeAnalysisResponse, after `lines` is computed.
ParseCodeLines(text, lines, max) ==
    [score |-> ExtractScore(lines, max),
     feedback |-> OrElse(ExtractFeedback(lines, FeedbackStopsCode),
                         <<"Code analysis completed successfully">>),
     strengths |-> OrPlaceholder(ExtractList(lines, "strengths:", StrengthsStopsCode),
                                 <<"Code structure is present">>),
     improvements |-> OrPlaceholder(
                         ExtractList(lines, "improvements:", ImprovementsStopsCode),
                         <<"Consider reviewing for best practices">>),
     category |-> ExtractCategory(lines),
     correctedCode |-> WhenTruthy(ExtractBlock(text, "corrected_code:")),
     optimizedCode |-> WhenTruthy(ExtractBlock(text, "optimized_code:")),
     codeIssues |-> WhenTruthy(ExtractIssues(lines))]

ParseCodeTry(text, max) == ParseCodeLines(text, TrimmedLines(text), max)

\* The try block of parseAnalysisResponse, after `lines` is computed.
ParseGenericLines(lines, max) ==
    [score |-> ExtractScore(lines, max),
     feedback |-> OrElse(ExtractFeedback(lines, FeedbackStopsGeneric),
                         <<"Analysis completed successfully">>),
     strengths |-> OrPlaceholder(
                      ExtractList(lines, "strengths:", StrengthsStopsGeneric),
                      <<"Text structure is present">>),
     improvements |-> OrPlaceholder(
                         ExtractList(lines, "improvements:", ImprovementsStopsGeneric),
                         <<"Consider reviewing for clarity">>),
     category |-> ExtractCategory(lines),
     correctedCode |-> None,
     optimizedCode |-> None,
     codeIssues |-> None]

ParseGenericTry(text, max) == ParseGenericLines(TrimmedLines(text), max)

\* The fallback score of both catch blocks:
\* responseText.match(/(\d+)(?:...)?/i) is the first run of digits of the reply;
\* scoreMatch ? Math.min(parseInt(scoreMatch[1]), maxScore) : 50
FallbackScore(text, max) ==
    LET starts == {p \in 1..Len(text) : IsDigit(text[p])}
    IN  IF starts = {} THEN Num(50)
        ELSE MathMin(Num(IntVal(SubSeq(text, MinOf(starts),
                                       RunEnd(text, MinOf(starts), Digits) - 1))), max)

ParseCodeCatch(text, max) ==
    [score |-> FallbackScore(text, max),
     feedback |-> <<"Code analysis completed but parsing encountered issues.">>,
     strengths |-> <<<<"Code provided for analysis">>>>,
     improvements |-> <<<<"Consider simplifying the code structure">>>>,
     category |-> None, correctedCode |-> None, optimizedCode |-> None,
     codeIssues |-> None]

ParseGenericCatch(text, max) ==
    [score |-> FallbackScore(text, max),
     feedback |-> <<"Analysis completed but parsing encountered issues. Please check the raw response for details.">>,
     strengths |-> <<<<"Content provided for analysis">>>>,
     improvements |-> <<<<"Consider simplifying the analysis request">>>>,
     category |-> None, correctedCode |-> None, optimizedCode |-> None,
     codeIssues |-> None]

\* Whether a statement of a try block throws on the reply: split, map, filter,
\* match, find, findIndex, replace, trim, push and join are total on strings,
\* and lines[feedbackIndex] is read only under feedbackIndex !== -1.
TryThrows(text) == FALSE

\* What a call returns to its caller: a result, or an exception (threw).
Returned(result) == [threw |-> FALSE, message |-> <<>>, result |-> result]

parseCodeAnalysisResponse(text, max) ==
    IF TryThrows(text) THEN Returned(ParseCodeCatch(text, max))
    ELSE Returned(ParseCodeTry(text, max))

\* A parser that gives up on a reply without a score: it throws instead of
\* returning the default.
parseAnalysisResponseStrict(text, max) ==
    IF ParseGenericTry(text, max).score = 0
        THEN [threw |-> TRUE, message |-> <<"No score found in response">>,
              result |-> ParseGenericCatch(text, max)]
        ELSE Returned(ParseGenericTry(text, max))

parseAnalysisResponse(text, max) ==
    IF TryThrows(text) THEN Returned(ParseGenericCatch(text, max))
    ELSE Returned(ParseGenericTry(text, max))

(***************************************************************************)
(* The parsers as a state machine: a reply and a maxScore are given, and   *)
(* each parser is called on them once.                                     *)
(***************************************************************************)
NotCalled == <<>>

ParserStart(replies, maxScores) ==
    /\ responseText \in replies
    /\ maxScore \in maxScores
    /\ parsed = [generic |-> NotCalled, code |-> NotCalled, analyzed |-> NotCalled]

ParseGeneric ==
    /\ parsed.generic = NotCalled
    /\ parsed' = [parsed EXCEPT !.generic = Some(parseAnalysisResponse(responseText, maxScore))]
    /\ UNCHANGED <<responseText, maxScore, serverVars>>

ParseCode ==
    /\ parsed.code = NotCalled
    /\ parsed' = [parsed EXCEPT !.code = Some(parseCodeAnalysisResponse(responseText, maxScore))]
    /\ UNCHANGED <<responseText, maxScore, serverVars>>

\* The replies of at most n lines, each line taken from a catalogue.
Replies(catalogue, n) ==
    {Join(ls, <<"\n">>) : ls \in UNION {[1..k -> catalogue] : k \in 0..n}}

(***************************************************************************)
(* detectInputType                                                         *)
(***************************************************************************)
\* The keywords of codePatterns that are a proper prefix of a word symbol
\* (an expression without a trailing \s+ or \b matches such a word too).
CharPrefixes(c) ==
    CASE c = "definitely" -> {"def"}
      [] c = "function" -> {"func"}
      [] OTHER -> {}

\* The keywords of hasCodeStructure that occur in a symbol (String.includes).
Includes(c) ==
    CASE c = "function" -> {"function"}
      [] c = "class" -> {"class"}
      [] c = "const" -> {"const"}
      [] c = "def" -> {"def"}
      [] c = "definitely" -> {"def"}
      [] c = "private" -> {"private"}
      [] OTHER -> {}

\* One alternative of a pattern, as a sequence of items: a symbol, or one of
\* the classes "\\s+", "\\s*", "\\w+", "[a-zA-Z_]".  The last symbol of an
\* alternative also matches a longer word it is a prefix of.
RECURSIVE MatchItems(_, _, _, _, _)
MatchItems(items, k, s, i, ci) ==
    IF k > Len(items) THEN TRUE
    ELSE LET it == items[k]
             sym == IF ci THEN Lower(s[i]) ELSE s[i]
         IN  CASE it = "\\s+" ->
                    /\ i <= Len(s) /\ IsSpace(s[i])
                    /\ MatchItems(items, k + 1, s, RunEnd(s, i, SpaceChars), ci)
               [] it = "\\s*" ->
                    MatchItems(items, k + 1, s, RunEnd(s, i, SpaceChars), ci)
               [] it = "\\w+" ->
                    /\ i <= Len(s) /\ s[i] \in WordChars
                    /\ MatchItems(items, k + 1, s, RunEnd(s, i, WordChars), ci)
               [] it = "[a-zA-Z_]" ->
                    /\ i <= Len(s) /\ s[i] \in Letters \cup {"_"}
                    /\ MatchItems(items, k + 1, s, i + 1, ci)
               [] OTHER ->
                    /\ i <= Len(s)
                    /\ \/ sym = it
                       \/ k = Len(items) /\ it \in CharPrefixes(sym)
                    /\ MatchItems(items, k + 1, s, i + 1, ci)

\* ^ under the m flag: the start of the text and the place after each line break
LineStarts(s) == {1} \cup {i + 1 : i \in {j \in 1..Len(s) : s[j] = "\n"}}

\* pattern.test(inputText)
PatternTest(pat, s) ==
    \E i \in LineStarts(s) : \E alt \in pat.alts : MatchItems(alt, 1, s, i, pat.ci)

ThenSpace(kws) == {<<kw, "\\s+">> : kw \in kws}

Words(kws) == {<<kw>> : kw \in kws}

codePatterns ==
    << [alts |-> ThenSpace({"import", "from", "export", "const", "let", "var",
                            "function", "class"}),
        ci |-> FALSE, language |-> "javascript"],
       [alts |-> Words({"def", "class", "import", "from"})
                    \cup {<<"if", " ", "__name__">>, <<"print", "(">>},
        ci |-> FALSE, language |-> "python"],
       [alts |-> Words({"cout", "cin"})
                    \cup {<<"#", "include">>, <<"using", " ", "namespace">>,
                          <<"int", " ", "main", "(">>},
        ci |-> FALSE, language |-> "cpp"],
       [alts |-> Words({"private", "public"})
                    \cup {<<"public", " ", "class">>, <<"import", " ", "java">>},
        ci |-> FALSE, language |-> "java"],
       [alts |-> Words({"select", "insert", "update", "delete"})
                    \cup {<<"create", " ", "table">>},
        ci |-> TRUE, language |-> "sql"],
       [alts |-> Words({"echo", "print"})
                    \cup {<<"<", "?", "php">>, <<"$", "[a-zA-Z_]">>},
        ci |-> FALSE, language |-> "php"],
       [alts |-> Words({"package", "func", "var"})
                    \cup {<<"import", " ", "\"">>,
                          <<"type", "\\s+", "\\w+", "\\s+", "struct">>},
        ci |-> FALSE, language |-> "go"],
       [alts |-> Words({"fn", "let", "mut", "use", "struct", "impl"}),
        ci |-> FALSE, language |-> "rust"],
       [alts |-> {<<"<", "html">>, <<"<", "div">>, <<"<", "script">>,
                  <<"<", "!", "doctype">>},
        ci |-> TRUE, language |-> "html"],
       [alts |-> Words({".", "#"})
                    \cup {<<"@", "media">>, <<"body", "\\s*", "{">>},
        ci |-> FALSE, language |-> "css"] >>

\* /[{}();]/.test(inputText) && (inputText.includes('function') || ...)
hasCodeStructure(s) ==
    /\ \E i \in 1..Len(s) : s[i] \in {"{", "}", "(", ")", ";"}
    /\ \E i \in 1..Len(s) : Includes(s[i]) # {}

\* The loop keeping the language of every match: the last pattern that matches
\* decides.
detectInputTypeLast(s) ==
    LET hits == {k \in 1..Len(codePatterns) : PatternTest(codePatterns[k], s)}
    IN  IF hits # {}
            THEN [isCode |-> TRUE, language |-> codePatterns[MaxOf(hits)].language]
            ELSE [isCode |-> hasCodeStructure(s), language |-> "javascript"]

detectInputType(s) ==
    LET hits == {k \in 1..Len(codePatterns) : PatternTest(codePatterns[k], s)}
    IN  IF hits # {}
            THEN [isCode |-> TRUE, language |-> codePatterns[MinOf(hits)].language]
            ELSE [isCode |-> hasCodeStructure(s), language |-> "javascript"]

(***************************************************************************)
(* Prompt builders.  A prompt is kept as what it embeds and the sections   *)
(* of the reply format it asks for, not as its full wording.               *)
(***************************************************************************)
BaseSections == {"SCORE:", "CATEGORY:", "FEEDBACK:", "STRENGTHS:", "IMPROVEMENTS:"}

\* The code prompt with both fenced blocks asked for unconditionally.
buildCodeAnalysisPromptBoth(inputCode, max, focusAreas, language, analysisType) ==
    [kind |-> "code",
     text |-> inputCode,
     maxScore |-> max,
     focusAreas |-> focusAreas,
     language |-> language,
     analysisType |-> Some(analysisType),
     criteria |-> None,
     sections |-> BaseSections \cup {"CODE_ISSUES:", "CORRECTED_CODE:", "OPTIMIZED_CODE:"}]

buildCodeAnalysisPrompt(inputCode, max, focusAreas, language, analysisType) ==
    [kind |-> "code",
     text |-> inputCode,
     maxScore |-> max,
     focusAreas |-> focusAreas,
     language |-> language,
     analysisType |-> Some(analysisType),
     criteria |-> None,
     sections |-> BaseSections \cup {"CODE_ISSUES:"}
                    \cup (IF analysisType \in {"correct", "all"}
                            THEN {"CORRECTED_CODE:"} ELSE {})
                    \cup (IF analysisType \in {"optimize", "all"}
                            THEN {"OPTIMIZED_CODE:"} ELSE {})]

buildAnalysisPrompt(inputText, criteria, max, focusAreas) ==
    [kind |-> "generic",
     text |-> inputText,
     maxScore |-> max,
     focusAreas |-> focusAreas,
     language |-> None,
     analysisType |-> None,
     criteria |-> Some(criteria),
     sections |-> BaseSections]

\* summarizeText's prompt
SummarizePrompt(text) ==
    [kind |-> "summarize",
     text |-> text,
     maxScore |-> 0,
     focusAreas |-> <<>>,
     language |-> None,
     analysisType |-> None,
     criteria |-> None,
     sections |-> {}]

NoPrompt == [SummarizePrompt(<<>>) EXCEPT !.kind = "none"]

(***************************************************************************)
(* analyzeText, in the two parts its await splits it into                  *)
(***************************************************************************)
\* A JSON value read from a request body: a string, or undefined / null.
Undefined == [type |-> "undefined", str |-> <<>>]

Null == [type |-> "null", str |-> <<>>]

Str(s) == [type |-> "string", str |-> s]

\* !value
Falsy(v) == v.type # "string" \/ v.str = <<>>

\* An optional string that is given and not ''
Truthy(opt) == opt # None /\ opt[1] # ""

\* options.<key> ?? default, for a key given as an optional value
OrDefault(opt, dflt) == IF opt = None THEN dflt ELSE opt[1]

DefaultMaxScore == Num(100)

\* new Error(`Failed to analyze text: ${error.message}`)
Failed(message) == <<"Failed to analyze text: ">> \o message

\* Lines 83-98, once the input is known to be a non-blank string.
analyzeTextPrepare(inputText, options, detection, isCodeInput, max) ==
    [threw |-> FALSE, message |-> <<>>, isCodeInput |-> isCodeInput, maxScore |-> max,
     prompt |-> IF isCodeInput
                  THEN buildCodeAnalysisPrompt(inputText, max, options.focusAreas,
                           IF Truthy(options.language) THEN options.language
                           ELSE Some(detection.language),
                           OrDefault(options.analysisType, "all"))
                  ELSE buildAnalysisPrompt(inputText,
                           OrDefault(options.criteria,
                                     IF isCodeInput THEN "code" ELSE "general"),
                           max, options.focusAreas)]

\* isCodeInput taken from the detector alone, options.criteria not looked at.
analyzeTextDetectedOnly(inputText, options, detection) ==
    analyzeTextPrepare(inputText, options, detection, detection.isCode,
                       OrDefault(options.maxScore, DefaultMaxScore))

analyzeTextDetected(inputText, options, detection) ==
    analyzeTextPrepare(inputText, options, detection,
                       detection.isCode \/ options.criteria = Some("code"),
                       OrDefault(options.maxScore, DefaultMaxScore))

\* The catch block: the promise is rejected with a wrapped message.
analyzeTextThrown(m) ==
    [threw |-> TRUE, message |-> Failed(m), isCodeInput |-> FALSE, maxScore |-> 0,
     prompt |-> NoPrompt]

\* analyzeText with `if (!inputText)` for its check: a whitespace-only text
\* goes on to the model.
analyzeTextCallUntrimmed(inputText, options) ==
    IF Falsy(inputText)
        THEN analyzeTextThrown(<<"Input text cannot be empty">>)
    ELSE analyzeTextDetected(inputText.str, options, detectInputType(inputText.str))

\* Lines 77-100: from the call to the await of model.generateContent(prompt).
\* threw: the catch block was entered and the promise is rejected with
\* `message`; otherwise the call to the model is made with `prompt`.
analyzeTextCall(inputText, options) ==
    IF inputText.type = "undefined"
        THEN analyzeTextThrown(<<"Cannot read properties of undefined (reading 'trim')">>)
    ELSE IF inputText.type = "null"
        THEN analyzeTextThrown(<<"Cannot read properties of null (reading 'trim')">>)
    ELSE IF Trim(inputText.str) = <<>>
        THEN analyzeTextThrown(<<"Input text cannot be empty">>)
    ELSE analyzeTextDetected(inputText.str, options, detectInputType(inputText.str))

\* What the awaited call to the AI service comes to:
\*   rejected    generateContent rejects (network, quota, key, ...)
\*   noResponse  it resolves to a result without a response object
\*   blocked     response.text() throws (the SDK does for a blocked reply)
\*   text        response.text() returns the reply
Rejected(m) == [kind |-> "rejected", message |-> m, text |-> <<>>]

NoResponse == [kind |-> "noResponse", message |-> <<>>, text |-> <<>>]

Blocked(m) == [kind |-> "blocked", message |-> m, text |-> <<>>]

Reply(t) == [kind |-> "text", message |-> <<>>, text |-> t]

NoOutcome == [kind |-> "none", message |-> <<>>, text |-> <<>>]

NoResult == ParseGenericCatch(<<>>, 0)

\* The promise analyzeText returns, settled.
RejectedWith(m) == [threw |-> TRUE, message |-> Failed(m), result |-> NoResult]

\* return parse...(analysisText, maxScore), inside the try block
ReturnParsed(p) ==
    IF p.threw THEN RejectedWith(p.message)
    ELSE [threw |-> FALSE, message |-> <<>>, result |-> p.result]

\* Lines 100-117: from the await to the return, or through the catch block.
analyzeTextResume(isCodeInput, max, outcome) ==
    CASE outcome.kind = "rejected" -> RejectedWith(outcome.message)
      [] outcome.kind = "noResponse" -> RejectedWith(<<"No response received from Gemini">>)
      [] outcome.kind = "blocked" -> RejectedWith(outcome.message)
      [] outcome.kind = "text" ->
            ReturnParsed(IF isCodeInput
                            THEN parseCodeAnalysisResponse(outcome.text, max)
                            ELSE parseAnalysisResponse(outcome.text, max))

\* analyzeText from the point where response.text() has returned the reply, in
\* code mode or in generic mode.
Analyze(isCodeInput) ==
    /\ parsed.analyzed = NotCalled
    /\ parsed' = [parsed EXCEPT !.analyzed =
                    Some(analyzeTextResume(isCodeInput, maxScore, Reply(responseText)))]
    /\ UNCHANGED <<responseText, maxScore, serverVars>>

ParserNext == ParseGeneric \/ ParseCode \/ \E isCodeInput \in BOOLEAN : Analyze(isCodeInput)

(***************************************************************************)
(* The HTTP server: three routes, the AI service, the OCR engine and the   *)
(* Summary table.  A handler runs from one await to the next in one step.  *)
(***************************************************************************)
MaxRequests == 2

ReqIds == 1..MaxRequests

NoOptions ==
    [criteria |-> None, maxScore |-> None, focusAreas |-> <<>>, language |-> None,
     analysisType |-> None]

\* A request that has not arrived yet.
IdleRequest ==
    [route |-> "none",
     pc |-> "idle",             \* idle, awaitAI, awaitDB, awaitOCR, done
     text |-> Undefined,        \* req.body.text
     options |-> NoOptions,     \* req.body.options
     hasFile |-> FALSE,         \* req.file
     sent |-> <<>>,             \* the responses sent, in order
     aiCalls |-> 0,             \* calls of model.generateContent
     ocrCalls |-> 0,            \* calls of Tesseract.recognize
     dbWrites |-> 0,            \* calls of prisma.summary.create
     upstream |-> NoOutcome,    \* what the awaited AI call came to
     ocr |-> NoOutcome,         \* what the awaited Tesseract.recognize came to
     prompt |-> NoPrompt,       \* the prompt handed to the AI service
     isCodeInput |-> FALSE,     \* analyzeText's locals across its await
     maxScore |-> 0,
     summary |-> <<>>]          \* the summarize handler's `summary`

\* res.status(code).json(body)
Send(req, code, body) == [req EXCEPT !.sent = Append(@, [status |-> code, json |-> body]),
                                     !.pc = "done"]

\* { error: message }; a message is a sequence of its pieces
ErrorBody(message) == [error |-> message]

\* The page's error object: { feedback: 'Error analyzing content. Please try again.' }
ErrorFeedback == [feedback |-> <<"Error analyzing content. Please try again.">>]

\* The App component as mounted: the initial values of its useState hooks,
\* no call in flight, no call made.
AppMounted ==
    [inputText |-> <<>>,
     analysisType |-> "text",
     result |-> None,
     loading |-> FALSE,
     uploadedImage |-> FALSE,
     pending |-> <<>>,
     calls |-> 0]

ServerStart ==
    /\ requests = [r \in ReqIds |-> IdleRequest]
    /\ summaries = <<>>
    /\ nextId = 1
    /\ now = 0
    /\ app = AppMounted

\* The server before any request exists (the parsers are called on their own).
NoServer ==
    /\ requests = <<>>
    /\ summaries = <<>>
    /\ nextId = 1
    /\ now = 0
    /\ app = AppMounted

\* Requests are numbered in their order of arrival.
Arrives(r) ==
    /\ requests[r].pc = "idle"
    /\ \A q \in ReqIds : q < r => requests[q].pc # "idle"

\* The handler without its `if (!text)` check: every body goes to the AI call.
SummarizeStartUnchecked(r, text) ==
    /\ Arrives(r)
    /\ requests' = [requests EXCEPT ![r] =
            [@ EXCEPT !.route = "summarize", !.text = text, !.pc = "awaitAI",
                      !.aiCalls = @ + 1, !.prompt = SummarizePrompt(text.str)]]
    /\ UNCHANGED <<summaries, nextId, now, parserVars, app>>

\* The handler without `return` before its 400 response: it goes on to the AI
\* call after answering.
SummarizeStartNoReturn(r, text) ==
    /\ Arrives(r)
    /\ LET req == [requests[r] EXCEPT !.route = "summarize", !.text = text]
           answered == IF Falsy(text)
                          THEN Send(req, 400, ErrorBody(<<"Text is required">>))
                          ELSE req
       IN  requests' = [requests EXCEPT ![r] =
                [answered EXCEPT !.pc = "awaitAI", !.aiCalls = @ + 1,
                                 !.prompt = SummarizePrompt(text.str)]]
    /\ UNCHANGED <<summaries, nextId, now, parserVars, app>>

\* POST /api/summarize, lines 7-15: to the 400 response or to the await of
\* summarizeText(text), which awaits model.generateContent(prompt).
SummarizeStart(r, text) ==
    /\ Arrives(r)
    /\ LET req == [requests[r] EXCEPT !.route = "summarize", !.text = text]
       IN  requests' = [requests EXCEPT ![r] =
                IF Falsy(text) THEN Send(req, 400, ErrorBody(<<"Text is required">>))
                ELSE [req EXCEPT !.pc = "awaitAI", !.aiCalls = @ + 1,
                                 !.prompt = SummarizePrompt(text.str)]]
    /\ UNCHANGED <<summaries, nextId, now, parserVars, app>>

\* The handler calling summarizeText again when the AI call has failed.
SummarizeAfterAIRetry(r, outcome) ==
    /\ requests[r].route = "summarize"
    /\ requests[r].pc = "awaitAI"
    /\ LET req == [requests[r] EXCEPT !.upstream = outcome]
       IN  requests' = [requests EXCEPT ![r] =
                IF outcome.kind = "text"
                    THEN [req EXCEPT !.summary = outcome.text, !.pc = "awaitDB",
                                     !.dbWrites = @ + 1]
                    ELSE IF req.aiCalls < 2 THEN [req EXCEPT !.aiCalls = @ + 1]
                    ELSE Send(req, 500, ErrorBody(<<"Something went wrong">>))]
    /\ UNCHANGED <<summaries, nextId, now, parserVars, app>>

\* The handler issuing the insert whatever the AI call came to.
SummarizeAfterAIWriteAlways(r, outcome) ==
    /\ requests[r].route = "summarize"
    /\ requests[r].pc = "awaitAI"
    /\ requests' = [requests EXCEPT ![r] =
            [@ EXCEPT !.upstream = outcome, !.summary = outcome.text, !.pc = "awaitDB",
                      !.dbWrites = @ + 1]]
    /\ UNCHANGED <<summaries, nextId, now, parserVars, app>>

\* summarizeText lines 542-545 and the handler's lines 15-22: the AI call
\* settles; on a summary the insert is issued, on any throw the catch block
\* answers 500.
SummarizeAfterAI(r, outcome) ==
    /\ requests[r].route = "summarize"
    /\ requests[r].pc = "awaitAI"
    /\ LET req == [requests[r] EXCEPT !.upstream = outcome]
       IN  requests' = [requests EXCEPT ![r] =
                IF outcome.kind = "text"
                    THEN [req EXCEPT !.summary = outcome.text, !.pc = "awaitDB",
                                     !.dbWrites = @ + 1]
                    ELSE Send(req, 500, ErrorBody(<<"Something went wrong">>))]
    /\ UNCHANGED <<summaries, nextId, now, parserVars, app>>

\* The row with the request's text stored in both columns.
NewSummaryEcho(req) ==
    [id |-> nextId, inputText |-> req.text.str, outputText |-> req.text.str,
     createdAt |-> now]

\* The row prisma.summary.create inserts: id and createdAt are the columns'
\* defaults (SERIAL, CURRENT_TIMESTAMP).
NewSummary(req) ==
    [id |-> nextId, inputText |-> req.text.str, outputText |-> req.summary,
     createdAt |-> now]

\* The write replacing the row of the same inputText instead of adding one
\* (an upsert keyed on the text).
SummarizeStoredUpsert(r) ==
    /\ requests[r].route = "summarize"
    /\ requests[r].pc = "awaitDB"
    /\ summaries' = Append(SelectSeq(summaries,
                                     LAMBDA row : row.inputText # requests[r].text.str),
                           NewSummary(requests[r]))
    /\ nextId' = nextId + 1
    /\ now' = now + 1
    /\ requests' = [requests EXCEPT ![r] = Send(@, 200, NewSummary(requests[r]))]
    /\ UNCHANGED <<parserVars, app>>

\* The insert succeeds: the handler's line 24 answers with the stored row.
SummarizeStored(r) ==
    /\ requests[r].route = "summarize"
    /\ requests[r].pc = "awaitDB"
    /\ summaries' = Append(summaries, NewSummary(requests[r]))
    /\ nextId' = nextId + 1
    /\ now' = now + 1
    /\ requests' = [requests EXCEPT ![r] = Send(@, 200, NewSummary(requests[r]))]
    /\ UNCHANGED <<parserVars, app>>

\* The catch block answering with the message of the error it caught.
SummarizeStoreFailedLeaking(r, drewId) ==
    /\ requests[r].route = "summarize"
    /\ requests[r].pc = "awaitDB"
    /\ nextId' = IF drewId THEN nextId + 1 ELSE nextId
    /\ requests' = [requests EXCEPT ![r] =
            Send(@, 500, ErrorBody(IF drewId THEN <<"Unique constraint failed">>
                                   ELSE <<"Can't reach database server">>))]
    /\ UNCHANGED <<summaries, now, parserVars, app>>

\* The insert fails (it may have drawn an id from the sequence): lines 25-27.
SummarizeStoreFailed(r, drewId) ==
    /\ requests[r].route = "summarize"
    /\ requests[r].pc = "awaitDB"
    /\ nextId' = IF drewId THEN nextId + 1 ELSE nextId
    /\ requests' = [requests EXCEPT ![r] = Send(@, 500, ErrorBody(<<"Something went wrong">>))]
    /\ UNCHANGED <<summaries, now, parserVars, app>>

\* The handler without its `if (!req.file)` check: OCR is called at once.
AnalyzeImageStartUnchecked(r, hasFile) ==
    /\ Arrives(r)
    /\ requests' = [requests EXCEPT ![r] =
            [@ EXCEPT !.route = "analyze-image", !.hasFile = hasFile,
                      !.pc = "awaitOCR", !.ocrCalls = @ + 1]]
    /\ UNCHANGED <<summaries, nextId, now, parserVars, app>>

\* POST /api/analyze-image, lines 9-16: to the 400 response or to the await
\* of Tesseract.recognize(req.file.buffer, 'eng').
AnalyzeImageStart(r, hasFile) ==
    /\ Arrives(r)
    /\ LET req == [requests[r] EXCEPT !.route = "analyze-image", !.hasFile = hasFile]
       IN  requests' = [requests EXCEPT ![r] =
                IF ~hasFile THEN Send(req, 400, ErrorBody(<<"No image uploaded">>))
                ELSE [req EXCEPT !.pc = "awaitOCR", !.ocrCalls = @ + 1]]
    /\ UNCHANGED <<summaries, nextId, now, parserVars, app>>

\* The handler answering with the feedback alone, the recognised text dropped.
AnalyzeImageAfterOCRNoText(r, ok, text) ==
    /\ requests[r].route = "analyze-image"
    /\ requests[r].pc = "awaitOCR"
    /\ requests' = [requests EXCEPT ![r] =
            IF ok THEN Send([@ EXCEPT !.ocr = Reply(text)], 200,
                            [feedback |-> "Screenshot analysis complete.",
                             extractedText |-> <<>>])
            ELSE Send([@ EXCEPT !.ocr = Rejected(<<"recognize failed">>)], 500,
                      ErrorBody(<<"Failed to analyze image">>))]
    /\ UNCHANGED <<summaries, nextId, now, parserVars, app>>

\* Lines 16-27: the OCR call settles, with the text or with a rejection.
AnalyzeImageAfterOCR(r, ok, text) ==
    /\ requests[r].route = "analyze-image"
    /\ requests[r].pc = "awaitOCR"
    /\ requests' = [requests EXCEPT ![r] =
            IF ok THEN Send([@ EXCEPT !.ocr = Reply(text)], 200,
                            [feedback |-> "Screenshot analysis complete.",
                             extractedText |-> text])
            ELSE Send([@ EXCEPT !.ocr = Rejected(<<"recognize failed">>)], 500,
                      ErrorBody(<<"Failed to analyze image">>))]
    /\ UNCHANGED <<summaries, nextId, now, parserVars, app>>

\* The handler answering a rejection with 400 and the message.
AnalyzeSettledBadRequest(req, settled) ==
    IF settled.threw THEN Send(req, 400, ErrorBody(settled.message))
    ELSE Send(req, 200, settled.result)

\* The handler of POST /api/analyze around `await analyzeText(text, options)`:
\* a rejection is answered in the catch block (line 13), a result by line 11.
AnalyzeSettled(req, settled) ==
    IF settled.threw THEN Send(req, 500, ErrorBody(settled.message))
    ELSE Send(req, 200, settled.result)

AnalyzeCalled(req, call) ==
    IF call.threw THEN AnalyzeSettled(req, [call EXCEPT !.prompt = NoPrompt])
    ELSE [req EXCEPT !.pc = "awaitAI", !.aiCalls = @ + 1, !.prompt = call.prompt,
                     !.isCodeInput = call.isCodeInput, !.maxScore = call.maxScore]

\* POST /api/analyze, lines 7-10, with analyzeText's lines 77-100: to the 500
\* response when analyzeText throws before its await, or to the await.
AnalyzeStart(r, text, options) ==
    /\ Arrives(r)
    /\ requests' = [requests EXCEPT ![r] =
            AnalyzeCalled([@ EXCEPT !.route = "analyze", !.text = text,
                                    !.options = options],
                          analyzeTextCall(text, options))]
    /\ UNCHANGED <<summaries, nextId, now, parserVars, app>>

\* analyzeText keeping isCodeInput and maxScore in module-level variables: after
\* the await they hold what the request that arrived last has set.
AnalyzeAfterAIShared(r, outcome) ==
    /\ requests[r].route = "analyze"
    /\ requests[r].pc = "awaitAI"
    /\ LET callers == {q \in ReqIds : requests[q].route = "analyze" /\ requests[q].aiCalls = 1}
           last == requests[MaxOf(callers)]
       IN  requests' = [requests EXCEPT ![r] =
                AnalyzeSettled([@ EXCEPT !.upstream = outcome],
                               analyzeTextResume(last.isCodeInput, last.maxScore, outcome))]
    /\ UNCHANGED <<summaries, nextId, now, parserVars, app>>

\* The score patterns kept at module level with the g flag: a parse that
\* follows another one starts its search at the lastIndex left behind and finds
\* no score.
AnalyzeAfterAISticky(r, outcome) ==
    /\ requests[r].route = "analyze"
    /\ requests[r].pc = "awaitAI"
    /\ LET settled == analyzeTextResume(requests[r].isCodeInput, requests[r].maxScore, outcome)
           parsedBefore == \E q \in ReqIds \ {r} : /\ requests[q].pc = "done"
                                                  /\ requests[q].upstream.kind = "text"
       IN  requests' = [requests EXCEPT ![r] =
                AnalyzeSettled([@ EXCEPT !.upstream = outcome],
                               IF parsedBefore /\ ~settled.threw
                                   THEN [settled EXCEPT !.result.score = 0]
                                   ELSE settled)]
    /\ UNCHANGED <<summaries, nextId, now, parserVars, app>>

\* analyzeText's lines 100-117 and the handler's lines 11-14: the AI call
\* settles; the result is sent, or the rejection's message with status 500.
AnalyzeAfterAI(r, outcome) ==
    /\ requests[r].route = "analyze"
    /\ requests[r].pc = "awaitAI"
    /\ requests' = [requests EXCEPT ![r] =
            AnalyzeSettled([@ EXCEPT !.upstream = outcome],
                           analyzeTextResume(@.isCodeInput, @.maxScore, outcome))]
    /\ UNCHANGED <<summaries, nextId, now, parserVars, app>>

(***************************************************************************)
(* The requests, upstream outcomes and replies the model draws from        *)
(***************************************************************************)
SummarizeTexts == {Undefined, Str(<<>>), Str(<<" ">>), Str(<<"hello">>)}

AnalyzeTexts ==
    {Undefined, Str(<<>>), Str(<<" ", "\n">>), Str(<<"hello">>),
     Str(<<"const", " ", "x", "=", "1", ";">>)}

AnalyzeOptions ==
    {NoOptions,
     [NoOptions EXCEPT !.criteria = Some("code"), !.analysisType = Some("correct")],
     [NoOptions EXCEPT !.criteria = Some("writing"), !.maxScore = Some(Num(10))]}

AIFailures ==
    {Rejected(<<"fetch failed">>), NoResponse, Blocked(<<"Response was blocked">>)}

SummaryReplies == {Reply(<<"Hi.">>)}

AnalysisReplies ==
    {Reply(<<>>),
     Reply(<<"x", "\n", "FENCE">>),
     Reply(<<"SCORE:", " ", "7", "5", "\n", "FEEDBACK:", " ", "good">>)}

OcrTexts == {<<>>, <<"hello">>}

ServerNext ==
    \E r \in ReqIds :
        \/ \E text \in SummarizeTexts : SummarizeStart(r, text)
        \/ \E outcome \in AIFailures \cup SummaryReplies : SummarizeAfterAI(r, outcome)
        \/ SummarizeStored(r)
        \/ \E drewId \in BOOLEAN : SummarizeStoreFailed(r, drewId)
        \/ \E hasFile \in BOOLEAN : AnalyzeImageStart(r, hasFile)
        \/ \E text \in OcrTexts : AnalyzeImageAfterOCR(r, TRUE, text)
        \/ AnalyzeImageAfterOCR(r, FALSE, <<>>)
        \/ \E text \in AnalyzeTexts, options \in AnalyzeOptions :
                AnalyzeStart(r, text, options)
        \/ \E outcome \in AIFailures \cup AnalysisReplies : AnalyzeAfterAI(r, outcome)

\* No parser call of its own is under way while the server is observed.
ParserIdle == ParserStart({<<>>}, {DefaultMaxScore})

Init == ServerStart /\ ParserIdle

Next == ServerNext

Spec == Init /\ [][Next]_vars

(***************************************************************************)
(* The parsers on their own: every reply of a few lines drawn from a       *)
(* catalogue, under two values of maxScore (7.5 and 100).                  *)
(***************************************************************************)
MaxScores == {75, Num(100)}

\* Lines with and without score tokens.
ScoreLines ==
    {<<"SCORE:", " ", "7", "5">>,
     <<"SCORE:", " ", "1", "5", "0">>,
     <<"SCORE:", " ", "0">>,
     <<"Score:", "8", ".", "4">>,
     <<"1", "/", "3">>,
     <<"7", ".", "5", " ", "OUT OF", " ", "1", "0">>,
     <<"good">>}

MaxScoreLines == 3

InitScore == ParserStart(Replies(ScoreLines, MaxScoreLines), MaxScores) /\ NoServer

SpecScore == InitScore /\ [][ParserNext]_vars

\* Section markers, bullet lines and plain lines.
SectionLines ==
    {<<"STRENGTHS:">>,
     <<"Improvements:">>,
     <<"FEEDBACK:", " ", "good">>,
     <<"CATEGORY:", " ", "x">>,
     <<"CODE_ISSUES:">>,
     <<"-", " ", "good">>,
     <<"1", ".", " ", "x">>,
     <<"good">>}

MaxSectionLines == 3

InitSections == ParserStart(Replies(SectionLines, MaxSectionLines), {Num(100)}) /\ NoServer

SpecSections == InitSections /\ [][ParserNext]_vars

\* Markers, fences with and without a language tag, and a line of code.
BlockLines ==
    {<<"CORRECTED_CODE:">>,
     <<"Optimized_Code:", " ">>,
     <<"FENCE">>,
     <<"FENCE", "js">>,
     <<"FENCE", "c", "+", "+">>,
     <<" ", "int", " ", "x", ";">>}

MaxBlockLines == 4

InitBlocks == ParserStart(Replies(BlockLines, MaxBlockLines), {Num(100)}) /\ NoServer

SpecBlocks == InitBlocks /\ [][ParserNext]_vars

(***************************************************************************)
(* Properties of the parsers                                               *)
(***************************************************************************)
\* What the calls made so far returned.
ParserReturns == {p[1] : p \in {q \in {parsed.generic, parsed.code} : q # NotCalled}}

BothParsed == parsed.generic # NotCalled /\ parsed.code # NotCalled

ReplyLines == TrimmedLines(responseText)

\* line matches one of the score patterns
MatchesScore(line) == \E k \in 1..NumPatterns : ScorePattern(k, line).matched

\* C1: for every reply and every maxScore > 0, the score returned by each parser
\* is at least 0 and at most maxScore, and it is an integer whenever maxScore is
\* one (numbers are in tenths: an integer is a multiple of 10).
C1_ScoreInRange ==
    maxScore > 0 =>
        \A p \in ParserReturns :
            /\ 0 <= p.result.score
            /\ p.result.score <= maxScore
            /\ (maxScore % 10 = 0 => p.result.score % 10 = 0)

\* Both parsers met a score token above maxScore and returned maxScore.
C1_Clamped ==
    /\ BothParsed
    /\ \E i \in 1..Len(ReplyLines) :
          /\ MatchLabelled(ReplyLines[i]).matched
          /\ RoundParseFloat(MatchLabelled(ReplyLines[i])) > maxScore
    /\ \A p \in ParserReturns : p.result.score = maxScore

\* The integers N that the reply carries in a token `SCORE: N`: the digits after
\* the label and its blanks, where no decimal part follows.
LabelledIntegers(text) ==
    {IntVal(NumberAt(text, RunEnd(text, p + 1, SpaceChars), TRUE).int) :
        p \in {q \in 1..Len(text) :
                  /\ Lower(text[q]) = "score:"
                  /\ LET n == NumberAt(text, RunEnd(text, q + 1, SpaceChars), TRUE)
                     IN  n.int # <<>> /\ n.frac = <<>>}}

\* C2 as stated: with maxScore = 100, a reply that contains `SCORE: N` for a
\* non-negative integer N is given the score N when N <= 100, and 100 when N > 100,
\* by both parsers.
C2_AnyLabelledScore ==
    maxScore = Num(100) =>
        \A n \in LabelledIntegers(responseText) : \A p \in ParserReturns :
            p.result.score = (IF n <= 100 THEN Num(n) ELSE Num(100))

\* The first line that matches a score pattern, 0 if there is none.
FirstScoreLine(lines) ==
    IF \E i \in 1..Len(lines) : MatchesScore(lines[i])
        THEN MinOf({i \in 1..Len(lines) : MatchesScore(lines[i])})
        ELSE 0

\* The number the first matching pattern reads on a line, 0 without a match.
LineValue(line) ==
    IF MatchesScore(line)
        THEN RoundParseFloat(ScorePattern(MinOf({k \in 1..NumPatterns :
                                                    ScorePattern(k, line).matched}), line))
        ELSE 0

\* C2, amended: with maxScore = 100, when the first line that matches a score
\* pattern carries `SCORE: N` as its first labelled token, N an integer, and either
\* N > 0 or no later line reads a non-zero number, both parsers return N when
\* N <= 100 and 100 when N > 100.
C2_FirstLabelledScore ==
    LET lines == ReplyLines
        i == FirstScoreLine(lines)
        m == MatchLabelled(lines[i])
        n == IntVal(m.int)
    IN  (/\ maxScore = Num(100)
         /\ i # 0
         /\ m.matched /\ m.frac = <<>>
         /\ \/ n > 0
            \/ \A j \in (i + 1)..Len(lines) : LineValue(lines[j]) = 0)
        => \A p \in ParserReturns :
              p.result.score = (IF n <= 100 THEN Num(n) ELSE Num(100))

\* Both parsers read `SCORE: 150` on the first matching line, with another
\* score token on a later line, and returned 100.
C2_ClampedTo100 ==
    LET lines == ReplyLines
        i == FirstScoreLine(lines)
    IN  /\ BothParsed
        /\ maxScore = Num(100)
        /\ i # 0
        /\ MatchLabelled(lines[i]).matched
        /\ IntVal(MatchLabelled(lines[i]).int) = 150
        /\ \E j \in (i + 1)..Len(lines) : LineValue(lines[j]) \notin {0, Num(150)}
        /\ \A p \in ParserReturns : p.result.score = Num(100)

NoScoreToken == \A i \in 1..Len(ReplyLines) : ~MatchesScore(ReplyLines[i])

\* C3 as stated: for a reply in which no line matches a score pattern, each
\* parser returns a result with the score 50 and does not raise.
C3_FallbackFifty ==
    NoScoreToken => \A p \in ParserReturns : ~p.threw /\ p.result.score = Num(50)

\* C3, amended: for a reply in which no line matches a score pattern, each parser
\* returns a result with the score 0 and does not raise.
C3_NoTokenScoreZero ==
    NoScoreToken => \A p \in ParserReturns : ~p.threw /\ p.result.score = 0

\* Both parsers returned for a reply of several lines, none with a score token.
C3_NoTokenParsed ==
    /\ BothParsed
    /\ Len(ReplyLines) >= 2
    /\ NoScoreToken

AnalysisResultKeys ==
    {"score", "feedback", "strengths", "improvements", "category", "correctedCode",
     "optimizedCode", "codeIssues"}

\* A value of the type AnalysisResult with its required members set.
IsAnalysisResult(r) ==
    /\ DOMAIN r = AnalysisResultKeys
    /\ r.score \in Nat
    /\ r.feedback # <<>>
    /\ Len(r.strengths) >= 0
    /\ Len(r.improvements) >= 0

\* C4: for every reply and maxScore each parser returns an AnalysisResult and does
\* not throw, and analyzeText, once the AI service has replied, resolves with a
\* result whatever the reply is.
C4_ParsersNeverThrow ==
    /\ \A p \in ParserReturns : ~p.threw /\ IsAnalysisResult(p.result)
    /\ parsed.analyzed # NotCalled =>
            /\ ~parsed.analyzed[1].threw
            /\ IsAnalysisResult(parsed.analyzed[1].result)

\* A reply without any marker or score token went through both parsers and
\* through analyzeText.
C4_MalformedParsed ==
    /\ BothParsed
    /\ parsed.analyzed # NotCalled
    /\ Len(ReplyLines) >= 1
    /\ NoScoreToken
    /\ \A i \in 1..Len(ReplyLines) : ReplyLines[i] = <<"good">>

\* The section markers of the reply format each prompt asks for.
GenericMarkers == {"score:", "category:", "feedback:", "strengths:", "improvements:"}

CodeMarkers == GenericMarkers \cup {"corrected_code:", "optimized_code:", "code_issues:"}

\* every marker starts at most one line of the reply
MarkersOnce(lines) ==
    \A m \in CodeMarkers : Cardinality({i \in 1..Len(lines) : StartsWith(lines[i], m)}) <= 1

\* The bullet lines of a section: those after the line that starts with the
\* marker and before the next line that starts with any marker of the format.
SectionBullets(lines, marker, markers) ==
    LET idx == FindIndex(lines, marker)
    IN  IF idx = 0 THEN {}
        ELSE {i \in (idx + 1)..(BreakIndex(lines, idx, markers) - 1) : IsBullet(lines[i])}

\* C5: in every result strengths and improvements are non-empty, and when the
\* section of the reply is missing or has no bullet line the list is the one
\* placeholder of the parser (stated for the replies in which no marker is
\* repeated, where the section of a marker is not in doubt).
C5_PlaceholderLists ==
    LET lines == ReplyLines
        none(marker, markers) == SectionBullets(lines, marker, markers) = {}
    IN  /\ \A p \in ParserReturns :
              Len(p.result.strengths) > 0 /\ Len(p.result.improvements) > 0
        /\ parsed.generic # NotCalled /\ MarkersOnce(lines) =>
              /\ none("strengths:", GenericMarkers) =>
                    parsed.generic[1].result.strengths = <<<<"Text structure is present">>>>
              /\ none("improvements:", GenericMarkers) =>
                    parsed.generic[1].result.improvements
                        = <<<<"Consider reviewing for clarity">>>>
        /\ parsed.code # NotCalled /\ MarkersOnce(lines) =>
              /\ none("strengths:", CodeMarkers) =>
                    parsed.code[1].result.strengths = <<<<"Code structure is present">>>>
              /\ none("improvements:", CodeMarkers) =>
                    parsed.code[1].result.improvements
                        = <<<<"Consider reviewing for best practices">>>>

\* The fenced block after a marker: the marker, blanks, the opening fence, a
\* language tag of any characters but blanks, a line break, and the text up to
\* the next fence, which holds no marker of the reply format.
FencedBlockAt(text, p, marker) ==
    LET j == RunEnd(text, p + 1, SpaceChars)
        k == RunEnd(text, j + 1, {text[i] : i \in 1..Len(text)} \ (SpaceChars \cup {"FENCE"}))
        closes == {c \in (k + 1)..Len(text) : text[c] = "FENCE"}
        inner == IF closes = {} THEN <<>> ELSE SubSeq(text, k + 1, MinOf(closes) - 1)
    IN  [ok |-> /\ Lower(text[p]) = marker
                /\ j <= Len(text) /\ text[j] = "FENCE"
                /\ k <= Len(text) /\ text[k] = "\n"
                /\ closes # {}
                /\ \A i \in 1..Len(inner) : Lower(inner[i]) \notin CodeMarkers,
         inner |-> inner]

\* member is absent, or is set to str (an empty string being the same as none)
HoldsText(member, str) == member = (IF str = <<>> THEN None ELSE Some(str))

\* the reply has the marker once, with a fenced block after it, and member is
\* not the inner text of the block
BlockMissed(text, marker, member) ==
    LET starts == {p \in 1..Len(text) : FencedBlockAt(text, p, marker).ok}
    IN  /\ Cardinality({p \in 1..Len(text) : Lower(text[p]) = marker}) = 1
        /\ starts # {}
        /\ ~HoldsText(member, Trim(FencedBlockAt(text, MinOf(starts), marker).inner))

\* C6: for a reply with a fenced block, with or without a language tag, after
\* CORRECTED_CODE: (OPTIMIZED_CODE:), parseCodeAnalysisResponse sets correctedCode
\* (optimizedCode) to the inner text of the block, trimmed, without the fences and
\* the tag.
C6_FencedBlockExtracted ==
    parsed.code # NotCalled =>
        /\ ~BlockMissed(responseText, "corrected_code:", parsed.code[1].result.correctedCode)
        /\ ~BlockMissed(responseText, "optimized_code:", parsed.code[1].result.optimizedCode)

(***************************************************************************)
(* Properties of the routes                                                *)
(***************************************************************************)
Response(code, body) == [status |-> code, json |-> body]

\* C7: a POST /api/summarize whose text is missing or falsy is answered 400
\* {error: "Text is required"} with no call of the AI client and no database write.
C7_SummarizeRequiresText ==
    \A r \in ReqIds :
        requests[r].route = "summarize" /\ Falsy(requests[r].text) =>
            /\ requests[r].sent = <<Response(400, ErrorBody(<<"Text is required">>))>>
            /\ requests[r].aiCalls = 0
            /\ requests[r].dbWrites = 0

\* A summarize request without text was answered while another one, with text,
\* had its summary stored.
C7_Refused ==
    \E r, q \in ReqIds :
        /\ requests[r].route = "summarize" /\ requests[r].text = Undefined
        /\ requests[r].pc = "done"
        /\ requests[q].route = "summarize" /\ requests[q].dbWrites = 1
        /\ Len(summaries) = 1

\* the summarize requests answered with status 200
SummarizeOK ==
    {r \in ReqIds : /\ requests[r].route = "summarize"
                    /\ requests[r].sent # <<>>
                    /\ requests[r].sent[1].status = 200}

\* C8: a POST /api/summarize with a non-empty text t, for which the AI client
\* returned s and the insert succeeded, has created exactly one Summary row, with
\* inputText = t and outputText = s, and is answered with that row as stored,
\* its id and createdAt included.
C8_SummarizeStoresOne ==
    /\ Len(summaries) = Cardinality(SummarizeOK)
    /\ \A r \in SummarizeOK :
          LET body == requests[r].sent[1].json
          IN  /\ Cardinality({i \in 1..Len(summaries) : summaries[i].id = body.id}) = 1
              /\ \E i \in 1..Len(summaries) : summaries[i] = body
              /\ body.inputText = requests[r].text.str
              /\ body.outputText = requests[r].upstream.text
              /\ Len(requests[r].sent) = 1
    /\ \A r \in ReqIds :
          requests[r].route = "summarize" /\ requests[r].pc = "done"
            /\ requests[r].dbWrites = 1 /\ r \notin SummarizeOK
          => requests[r].sent = <<Response(500, ErrorBody(<<"Something went wrong">>))>>

\* Two summarize requests were stored and answered, the second one after an
\* insert of its own.
C8_TwoStored ==
    /\ Cardinality(SummarizeOK) = 2
    /\ \E r \in SummarizeOK :
          /\ requests[r].text = Str(<<"hello">>)
          /\ requests[r].sent[1].json =
                [id |-> 2, inputText |-> <<"hello">>, outputText |-> <<"Hi.">>,
                 createdAt |-> 1]

\* C9: a POST /api/analyze-image without a file is answered 400
\* {error: "No image uploaded"} and the OCR engine is not called.
C9_ImageRequiresFile ==
    \A r \in ReqIds :
        requests[r].route = "analyze-image" /\ ~requests[r].hasFile =>
            /\ requests[r].sent = <<Response(400, ErrorBody(<<"No image uploaded">>))>>
            /\ requests[r].ocrCalls = 0

\* An upload without a file was refused and one with a file went through OCR.
C9_Refused ==
    \E r, q \in ReqIds :
        /\ requests[r].route = "analyze-image" /\ ~requests[r].hasFile
        /\ requests[r].pc = "done"
        /\ requests[q].route = "analyze-image" /\ requests[q].ocrCalls = 1
        /\ requests[q].pc = "done"

\* analyzeText's promise as the analyze route shows it: rejected is the 500
\* response with the wrapped message, resolved the 200 response with the result.
AnalyzeDone == {r \in ReqIds : requests[r].route = "analyze" /\ requests[r].pc = "done"}

AnalyzeRejected(r) == requests[r].sent[1].status = 500

\* inputText is no text at all, empty, or only blanks
BlankInput(r) == Falsy(requests[r].text) \/ Trim(requests[r].text.str) = <<>>

\* C10 as stated: analyzeText rejects if and only if inputText is empty or
\* whitespace-only, the AI client then not being called, or the AI call returns
\* no response object; otherwise it resolves with an AnalysisResult.
C10_RejectsOnlyBlankOrNoResponse ==
    \A r \in AnalyzeDone :
        /\ AnalyzeRejected(r) <=>
              (BlankInput(r) \/ requests[r].upstream.kind = "noResponse")
        /\ BlankInput(r) => requests[r].aiCalls = 0
        /\ ~AnalyzeRejected(r) => IsAnalysisResult(requests[r].sent[1].json)

\* C10, amended: analyzeText rejects if and only if inputText is no string, empty
\* or whitespace-only, the AI client then not being called, or the AI call
\* rejects, returns no response object, or its response.text() throws; otherwise
\* it resolves with an AnalysisResult.
C10_RejectsBlankOrUpstreamFailure ==
    \A r \in AnalyzeDone :
        /\ AnalyzeRejected(r) <=>
              (BlankInput(r)
                 \/ requests[r].upstream.kind \in {"rejected", "noResponse", "blocked"})
        /\ BlankInput(r) => requests[r].aiCalls = 0
        /\ ~AnalyzeRejected(r) => IsAnalysisResult(requests[r].sent[1].json)

\* One analyze call was rejected for a whitespace-only text, and another one
\* because the AI call itself was rejected.
C10_BothRejections ==
    \E r, q \in AnalyzeDone :
        /\ requests[r].text = Str(<<" ", "\n">>) /\ AnalyzeRejected(r)
        /\ requests[q].upstream.kind = "rejected" /\ AnalyzeRejected(q)

(***************************************************************************)
(* Outbound calls, error reporting and the Summary table                   *)
(***************************************************************************)
UpstreamFailed(r) == requests[r].upstream.kind \in {"rejected", "noResponse", "blocked"}

\* C11: a request to any of the three routes makes at most one outbound call
\* (AI service or OCR engine) and, on /summarize only, at most one database
\* write; once a call or the write has failed the request is answered without
\* another one.
C11_AtMostOneCall ==
    \A r \in ReqIds :
        /\ requests[r].aiCalls + requests[r].ocrCalls <= 1
        /\ requests[r].dbWrites <= 1
        /\ requests[r].route # "summarize" => requests[r].dbWrites = 0
        /\ requests[r].dbWrites = 1 => requests[r].aiCalls = 1
        /\ UpstreamFailed(r) \/ requests[r].ocr.kind = "rejected" =>
              requests[r].pc = "done" /\ Len(requests[r].sent) = 1

\* A summarize request answered 500 after its one insert has failed, and
\* another request answered after its one AI call has failed.
C11_FailedOnce ==
    \E r, q \in ReqIds :
        /\ requests[r].route = "summarize" /\ requests[r].pc = "done"
        /\ requests[r].dbWrites = 1 /\ requests[r].aiCalls = 1
        /\ requests[r].sent[1].status = 500
        /\ requests[q].pc = "done" /\ UpstreamFailed(q) /\ requests[q].aiCalls = 1

\* The message analyzeText's rejection carries, read off the request's body and
\* the outcome of its AI call.
RejectionMessage(r) ==
    Failed(IF requests[r].text.type # "string"
               THEN <<"Cannot read properties of undefined (reading 'trim')">>
           ELSE IF Trim(requests[r].text.str) = <<>> THEN <<"Input text cannot be empty">>
           ELSE IF requests[r].upstream.kind = "noResponse"
               THEN <<"No response received from Gemini">>
           ELSE requests[r].upstream.message)

\* C12: POST /api/analyze is never answered 400: when analyzeText rejects (a
\* missing text included, which is rejected before any AI call) the response is
\* 500 {error: <the rejection's message>}, otherwise it is 200 with the
\* AnalysisResult.
C12_AnalyzeNever400 ==
    \A r \in AnalyzeDone :
        /\ Len(requests[r].sent) = 1
        /\ requests[r].sent[1].status # 400
        /\ IF BlankInput(r) \/ UpstreamFailed(r)
              THEN requests[r].sent[1] = Response(500, ErrorBody(RejectionMessage(r)))
              ELSE /\ requests[r].sent[1].status = 200
                   /\ IsAnalysisResult(requests[r].sent[1].json)
        /\ requests[r].text = Undefined => requests[r].aiCalls = 0

\* A request without text answered 500 with no AI call, next to one answered
\* with a result.
C12_MissingTextIs500 ==
    \E r, q \in AnalyzeDone :
        /\ requests[r].text = Undefined /\ requests[r].sent[1].status = 500
        /\ requests[r].aiCalls = 0
        /\ requests[q].sent[1].status = 200

\* The insert of a summarize request has failed.
WriteFailed(r) ==
    /\ requests[r].route = "summarize" /\ requests[r].dbWrites = 1
    /\ requests[r].pc = "done" /\ r \notin SummarizeOK

\* The requests whose AI call, OCR call or database write has failed.
FailedUpstream ==
    {r \in ReqIds : /\ requests[r].pc = "done"
                    /\ \/ UpstreamFailed(r)
                       \/ requests[r].ocr.kind = "rejected"
                       \/ WriteFailed(r)}

\* C13 as stated: in every route a failure of the AI service, the OCR engine or
\* the database write is answered 500 with a body that is fixed for the route,
\* whatever the upstream error was.
C13_GenericErrorBody ==
    \A r, q \in FailedUpstream :
        /\ requests[r].sent[1].status = 500
        /\ requests[r].route = requests[q].route => requests[r].sent[1] = requests[q].sent[1]

\* C13, amended: such a failure is answered 500; the body is the fixed
\* {error: "Something went wrong"} on /summarize and the fixed
\* {error: "Failed to analyze image"} on /analyze-image, and on /analyze it is
\* {error: "Failed to analyze text: " + m}, m being the message of the error the
\* AI call failed with ("No response received from Gemini" for a result without
\* a response object).
C13_GenericExceptAnalyze ==
    \A r \in FailedUpstream :
        requests[r].sent =
            <<Response(500,
                CASE requests[r].route = "summarize" -> ErrorBody(<<"Something went wrong">>)
                  [] requests[r].route = "analyze-image" ->
                        ErrorBody(<<"Failed to analyze image">>)
                  [] requests[r].route = "analyze" ->
                        ErrorBody(<<"Failed to analyze text: ">> \o
                                  (IF requests[r].upstream.kind = "noResponse"
                                      THEN <<"No response received from Gemini">>
                                      ELSE requests[r].upstream.message)))>>

\* A failed insert of /summarize and a rejected AI call of /analyze, both
\* answered.
C13_FailuresAnswered ==
    \E r, q \in FailedUpstream :
        /\ WriteFailed(r)
        /\ requests[q].route = "analyze" /\ requests[q].upstream.kind = "rejected"

\* C14: POST /api/analyze-image with a file, once OCR has returned the text x,
\* is answered {feedback: "Screenshot analysis complete.", extractedText: x};
\* the request calls neither the analysis service nor the AI client and writes
\* nothing to the database.
C14_ImageAnswersOcrText ==
    \A r \in ReqIds :
        requests[r].route = "analyze-image" =>
            /\ requests[r].aiCalls = 0 /\ requests[r].prompt = NoPrompt
            /\ requests[r].dbWrites = 0
            /\ \A i \in 1..Len(summaries) :
                  \E q \in SummarizeOK : requests[q].sent[1].json = summaries[i]
            /\ requests[r].ocr.kind = "text" =>
                  /\ requests[r].hasFile /\ requests[r].ocrCalls = 1
                  /\ requests[r].sent =
                        <<Response(200, [feedback |-> "Screenshot analysis complete.",
                                         extractedText |-> requests[r].ocr.text])>>

\* An image whose OCR text is not empty has been answered.
C14_TextExtracted ==
    \E r \in ReqIds :
        /\ requests[r].route = "analyze-image" /\ requests[r].pc = "done"
        /\ requests[r].ocr = Reply(<<"hello">>)

\* C15: the Summary table only grows: a step keeps every existing record as it
\* is (id, inputText, outputText, createdAt), and a record is added only by the
\* insert of a /summarize request, one at a time.
C15_AppendOnly ==
    [][/\ Len(summaries') >= Len(summaries)
       /\ \A i \in 1..Len(summaries) : summaries'[i] = summaries[i]
       /\ summaries' # summaries =>
             /\ Len(summaries') = Len(summaries) + 1
             /\ \E r \in ReqIds : /\ requests[r].route = "summarize"
                                  /\ requests[r].pc = "awaitDB"
                                  /\ requests'[r].pc = "done"]_vars

\* Two records of the same inputText exist side by side.
C15_SameTextTwice ==
    /\ Len(summaries) = 2
    /\ summaries[1].inputText = summaries[2].inputText
    /\ summaries[1].id # summaries[2].id

(***************************************************************************)
(* Requests served concurrently                                            *)
(***************************************************************************)
\* What POST /api/analyze answers to a body and an outcome of its AI call, as a
\* server with no other request would.
AnalyzeAlone(settled) ==
    IF settled.threw THEN Response(500, ErrorBody(settled.message))
    ELSE Response(200, settled.result)

\* analyzeText on a non-blank text, from the call to the settled promise, for
\* every body and every outcome of the AI call that the requests draw from.
AnalyzeAloneOn ==
    [text \in AnalyzeTexts, options \in AnalyzeOptions,
     outcome \in AIFailures \cup AnalysisReplies |->
        AnalyzeAlone(analyzeTextResume(
            detectInputType(text.str).isCode \/ options.criteria = Some("code"),
            OrDefault(options.maxScore, DefaultMaxScore),
            outcome))]

\* The response of a finished request is the one its own body and the replies
\* to its own calls determine.
OwnResponse(req, response, table) ==
    CASE req.route = "analyze" ->
            IF Falsy(req.text) \/ Trim(req.text.str) = <<>>
                THEN response.status = 500 /\ req.upstream = NoOutcome
            ELSE response = AnalyzeAloneOn[req.text, req.options, req.upstream]
      [] req.route = "analyze-image" ->
            response = (IF ~req.hasFile THEN Response(400, ErrorBody(<<"No image uploaded">>))
                        ELSE IF req.ocr.kind = "text"
                            THEN Response(200, [feedback |-> "Screenshot analysis complete.",
                                                extractedText |-> req.ocr.text])
                        ELSE Response(500, ErrorBody(<<"Failed to analyze image">>)))
      [] req.route = "summarize" ->
            IF Falsy(req.text) THEN response = Response(400, ErrorBody(<<"Text is required">>))
            ELSE IF req.upstream.kind # "text" \/ response.status # 200
                THEN response = Response(500, ErrorBody(<<"Something went wrong">>))
            ELSE /\ response.json.inputText = req.text.str
                 /\ response.json.outputText = req.upstream.text
                 /\ \E i \in 1..Len(table) : table[i] = response.json

\* C16: under any interleaving of the requests, the response a request gets is
\* the one its own body and the upstream replies to its own calls determine,
\* whatever the other requests were and however they ended; a step of one
\* request leaves every other request as it was; and whatever happened to the
\* requests before it, the next one is taken up on each of the routes.
C16_RequestsIndependent ==
    [][\A r \in ReqIds :
          /\ requests'[r] # requests[r] =>
                /\ \A q \in ReqIds \ {r} : requests'[q] = requests[q]
                /\ requests[r].pc # "done"
                /\ requests'[r].pc = "done" =>
                      /\ Len(requests'[r].sent) = 1
                      /\ OwnResponse(requests'[r], requests'[r].sent[1], summaries')
          /\ Arrives(r) =>
                /\ ENABLED SummarizeStart(r, Undefined)
                /\ ENABLED AnalyzeImageStart(r, FALSE)
                /\ ENABLED AnalyzeStart(r, Undefined, NoOptions)]_vars

\* Two /analyze requests with different options in flight together: the later
\* one has been answered 200 while the earlier one still awaits its AI call.
C16_Overtaken ==
    /\ requests[1].route = "analyze" /\ requests[1].pc = "awaitAI"
    /\ requests[2].route = "analyze" /\ requests[2].pc = "done"
    /\ requests[2].sent[1].status = 200
    /\ requests[1].maxScore # requests[2].maxScore

(***************************************************************************)
(* The score scan, line by line                                            *)
(***************************************************************************)
\* The number a match captured, in tenths, and the integer nearest to it.
Captured(m) == IntVal(m.int) * 10 + (IF m.frac = <<>> THEN 0 ELSE DigitVal(m.frac[1]))

Nearest(m) == ((Captured(m) + 5) \div 10) * 10

\* What a matching line gives: the number its first matching pattern captured,
\* rounded to the nearest integer and then min'd with maxScore.
LineGives(line) ==
    LET k == MinOf({n \in 1..NumPatterns : ScorePattern(n, line).matched})
        v == Nearest(ScorePattern(k, line))
    IN  IF v <= maxScore THEN v ELSE maxScore

ScoreLinesOf(lines) == {i \in 1..Len(lines) : MatchesScore(lines[i])}

\* C17 as stated: in both parsers the score is set by the first line that
\* matches any score pattern (the captured number rounded to the nearest integer,
\* then min'd with maxScore), and no later line affects it.
C17_FirstMatchingLine ==
    LET lines == ReplyLines
        hits == ScoreLinesOf(lines)
    IN  hits # {} => \A p \in ParserReturns : p.result.score = LineGives(lines[MinOf(hits)])

\* C17, amended: the score is set by the first matching line that gives more
\* than 0 (the captured number rounded to the nearest integer, then min'd with
\* maxScore), and no line after it affects the score; a matching line that gives
\* 0 does not end the scan, and when no matching line gives more than 0 the score
\* is what the last matching line gives.
C17_FirstNonZeroLine ==
    LET lines == ReplyLines
        hits == ScoreLinesOf(lines)
        positive == {i \in hits : LineGives(lines[i]) > 0}
    IN  hits # {} =>
            \A p \in ParserReturns :
                p.result.score = LineGives(lines[IF positive # {} THEN MinOf(positive)
                                                 ELSE MaxOf(hits)])

\* Both parsers returned 8 for a reply whose first score line reads 7.5 and
\* whose later score line gives another value.
C17_RoundedFirstLine ==
    LET lines == ReplyLines
        hits == ScoreLinesOf(lines)
    IN  /\ BothParsed
        /\ maxScore = Num(100)
        /\ hits # {}
        /\ Captured(ScorePattern(4, lines[MinOf(hits)])) = 75
        /\ \E j \in hits : LineGives(lines[j]) \notin {0, Num(8)}
        /\ \A p \in ParserReturns : p.result.score = Num(8)

\* C18: a reply whose only score token is a genuine 0 and a reply without any
\* score token get the same score from both parsers, 0.
C18_ZeroLikeNoScore ==
    LET lines == ReplyLines
        hits == ScoreLinesOf(lines)
    IN  \/ hits = {}
        \/ /\ Cardinality(hits) = 1
           /\ \A i \in hits : Captured(ScorePattern(1, lines[i])) = 0
                                /\ ScorePattern(1, lines[i]).matched
        => \A p \in ParserReturns : ~p.threw /\ p.result.score = 0

\* Both parsers returned for a reply whose only score token is `SCORE: 0`,
\* among other lines.
C18_GenuineZero ==
    LET lines == ReplyLines
        hits == ScoreLinesOf(lines)
    IN  /\ BothParsed
        /\ Len(lines) >= 2
        /\ Cardinality(hits) = 1
        /\ \A i \in hits : lines[i] = <<"SCORE:", " ", "0">>

(***************************************************************************)
(* The sections of a reply: feedback, strengths, improvements              *)
(***************************************************************************)
\* The feedback section of a reply: the rest of the first line that starts with
\* `feedback:` and the lines after it, up to the next line that starts with
\* another marker of the format, joined by blanks.
FeedbackSection(lines, markers) ==
    LET idx == FindIndex(lines, "feedback:")
        end == BreakIndex(lines, idx, markers \ {"feedback:"})
    IN  Trim(Join(<<RemoveMarker(lines[idx], "feedback:")>> \o SubSeq(lines, idx + 1, end - 1),
                  <<" ">>))

\* C19: in both parsers the feedback is the space-joined text from the first
\* `feedback:` line, its prefix stripped, up to but excluding the next line that
\* starts with another section marker of the parser's format, so that no line
\* that begins with another marker is part of the feedback (stated where the
\* section holds some text).
C19_FeedbackSection ==
    LET lines == ReplyLines
        holds(markers) == FindIndex(lines, "feedback:") # 0
                            /\ FeedbackSection(lines, markers) # <<>>
    IN  /\ parsed.generic # NotCalled /\ holds(GenericMarkers) =>
              parsed.generic[1].result.feedback = FeedbackSection(lines, GenericMarkers)
        /\ parsed.code # NotCalled /\ holds(CodeMarkers) =>
              parsed.code[1].result.feedback = FeedbackSection(lines, CodeMarkers)

\* The list section of a marker: the bullet lines, stripped, between the marker
\* and the next line that starts with any marker of the format.
SectionList(lines, marker, markers) ==
    LET idx == FindIndex(lines, marker)
    IN  BulletsIn(lines, idx + 1, BreakIndex(lines, idx, markers))

\* C20: in both parsers strengths (improvements) is, in reply order, exactly the
\* bullet lines after the STRENGTHS: (IMPROVEMENTS:) marker and before the next
\* section marker, whatever the order of the sections: a bullet line that follows
\* a later marker is not in the list, which is the placeholder when the section
\* has no bullet line (stated for the replies in which no marker is repeated).
C20_SectionBullets ==
    LET lines == ReplyLines
        is(list, marker, markers, placeholder) ==
            FindIndex(lines, marker) # 0 =>
                list = OrPlaceholder(SectionList(lines, marker, markers), placeholder)
    IN  MarkersOnce(lines) =>
            /\ parsed.generic # NotCalled =>
                  /\ is(parsed.generic[1].result.strengths, "strengths:", GenericMarkers,
                        <<"Text structure is present">>)
                  /\ is(parsed.generic[1].result.improvements, "improvements:",
                        GenericMarkers, <<"Consider reviewing for clarity">>)
            /\ parsed.code # NotCalled =>
                  /\ is(parsed.code[1].result.strengths, "strengths:", CodeMarkers,
                        <<"Code structure is present">>)
                  /\ is(parsed.code[1].result.improvements, "improvements:", CodeMarkers,
                        <<"Consider reviewing for best practices">>)

(***************************************************************************)
(* The entries of strengths and improvements                               *)
(***************************************************************************)
\* The two parsers called on a reply, each once.
ParsersNext == ParseGeneric \/ ParseCode

\* List markers and bullet lines whose text begins with a digit, a hyphen or a
\* letter.
BulletLines ==
    {<<"STRENGTHS:">>,
     <<"IMPROVEMENTS:">>,
     <<"-", " ", "3", " ", "x">>,
     <<"<bullet>", " ", "-", "x">>,
     <<"1", ".", " ", "x">>,
     <<"-", " ", "good">>}

MaxBulletLines == 3

InitBullets == ParserStart(Replies(BulletLines, MaxBulletLines), {Num(100)}) /\ NoServer

SpecBullets == InitBullets /\ [][ParsersNext]_vars

\* A bullet line without its marker (`-`, the bullet sign, or `N.`) and the
\* blanks after the marker.
WithoutMarker(line) ==
    LET digits == RunEnd(line, 1, Digits)
        after == IF line[1] \in {"-", "<bullet>"} THEN 2 ELSE digits + 1
    IN  SubSeq(line, RunEnd(line, after, SpaceChars), Len(line))

\* The bullet lines after line idx, each without its marker.
EntriesAfter(lines, idx) ==
    LET bullets == SelectSeq(SubSeq(lines, idx + 1, Len(lines)), LAMBDA l : IsBullet(l))
    IN  [i \in 1..Len(bullets) |-> WithoutMarker(bullets[i])]

\* C21: each entry of strengths and improvements is its bullet line with only
\* the marker and the blanks after it removed, the text kept as it is even when
\* it begins with a digit, a dot or a hyphen (stated for the replies with one
\* list marker, on the first line, and bullet lines after it).
C21_BulletTextKept ==
    LET lines == ReplyLines
        one(marker) == /\ Len(lines) >= 2
                       /\ StartsWith(lines[1], marker)
                       /\ \A i \in 2..Len(lines) : IsBullet(lines[i])
    IN  \A p \in ParserReturns :
            /\ one("strengths:") => p.result.strengths = EntriesAfter(lines, 1)
            /\ one("improvements:") => p.result.improvements = EntriesAfter(lines, 1)

(***************************************************************************)
(* codeIssues                                                              *)
(***************************************************************************)
\* The CODE_ISSUES: marker, issue lines with and without a line number, with
\* values in and out of the CodeIssue enums, a bullet line with two fields only,
\* and a plain bullet line.
IssueLines ==
    {<<"CODE_ISSUES:">>,
     <<"-", " ", "TYPE:", " ", "Logic", " ", "|", " ", "SEVERITY:", " ", "HIGH", " ", "|", " ",
       "LINE:", " ", "3", " ", "|", " ", "DESCRIPTION:", " ", "x", " ", "|", " ",
       "SUGGESTION:", " ", "good">>,
     <<"-", " ", "TYPE:", " ", "bogus", " ", "|", " ", "SEVERITY:", " ", "urgent", " ", "|", " ",
       "DESCRIPTION:", " ", "x", " ", "|", " ", "SUGGESTION:", " ", "good">>,
     <<"<bullet>", " ", "TYPE:", " ", "style", " ", "|", " ", "SEVERITY:", " ", "low", " ", "|",
       " ", "DESCRIPTION:", " ", "x", " ", "|", " ", "SUGGESTION:", " ", "good">>,
     <<"-", " ", "TYPE:", " ", "style", " ", "|", " ", "SEVERITY:", " ", "low">>,
     <<"-", " ", "good">>}

MaxIssueLines == 3

InitIssues == ParserStart(Replies(IssueLines, MaxIssueLines), {Num(100)}) /\ NoServer

SpecIssues == InitIssues /\ [][ParsersNext]_vars

\* CodeIssue['type'] and CodeIssue['severity']
IssueTypes == {<<"syntax">>, <<"logic">>, <<"performance">>, <<"security">>, <<"style">>}

IssueSeverities == {<<"low">>, <<"medium">>, <<"high">>, <<"critical">>}

\* The bullet lines after line idx that match the issue expression.
ConformingAfter(lines, idx) ==
    {i \in (idx + 1)..Len(lines) :
        /\ lines[i][1] \in {"-", "<bullet>"}
        /\ \E p \in 1..Len(lines[i]) : IssueAt(lines[i], p).ok}

\* C22: codeIssues holds one entry for each bullet line after the CODE_ISSUES:
\* marker that matches the five-field pattern and none for the other bullet
\* lines, and every entry is a valid CodeIssue: its type is one of syntax, logic,
\* performance, security, style and its severity one of low, medium, high,
\* critical.
C22_ValidIssues ==
    parsed.code # NotCalled =>
        LET lines == ReplyLines
            idx == FindIndex(lines, "code_issues:")
            found == parsed.code[1].result.codeIssues
            issues == IF found = None THEN <<>> ELSE found[1]
        IN  idx # 0 =>
                /\ Len(issues) = Cardinality(ConformingAfter(lines, idx))
                /\ \A k \in 1..Len(issues) :
                      /\ issues[k].type \in IssueTypes
                      /\ issues[k].severity \in IssueSeverities

(***************************************************************************)
(* analyzeText on its own: one request to POST /api/analyze, over texts of *)
(* a few lines and the options that decide the mode                        *)
(***************************************************************************)
\* Lines with and without a language signature, at the start of the line or
\* not, with and without the characters and keywords of hasCodeStructure.
DetectLines ==
    {<<"hello">>,
     <<"class", " ", "x">>,
     <<"def", " ", "f">>,
     <<"SELECT">>,
     <<"definitely">>,
     <<"private">>,
     <<" ", "const", " ", "x">>,
     <<"x", " ", "const", "(">>,
     <<"f", "(", ")">>}

MaxDetectLines == 2

DetectTexts == {Str(t) : t \in Replies(DetectLines, MaxDetectLines)}

ModeOptions ==
    {NoOptions,
     [NoOptions EXCEPT !.criteria = Some("code")],
     [NoOptions EXCEPT !.criteria = Some("writing"), !.maxScore = Some(Num(10))],
     [NoOptions EXCEPT !.analysisType = Some("optimize"), !.language = Some("cpp")],
     [NoOptions EXCEPT !.analysisType = Some("correct")],
     [NoOptions EXCEPT !.analysisType = Some("analyze")]}

ModeOutcomes == {Reply(<<"SCORE:", " ", "1", "5", "0">>), NoResponse}

InitAnalyze ==
    /\ requests = <<IdleRequest>>
    /\ summaries = <<>>
    /\ nextId = 1
    /\ now = 0
    /\ app = AppMounted
    /\ ParserIdle

AnalyzeNext ==
    \/ \E text \in DetectTexts, options \in ModeOptions : AnalyzeStart(1, text, options)
    \/ \E outcome \in ModeOutcomes : AnalyzeAfterAI(1, outcome)

SpecAnalyze == InitAnalyze /\ [][AnalyzeNext]_vars

\* The request has gone through the detector and the prompt builder.
Prompted == requests[1].prompt.kind \in {"code", "generic"}

\* The signatures, by their place in the list, that a text matches.
Signatures(s) == {k \in 1..Len(codePatterns) : PatternTest(codePatterns[k], s)}

\* The text holds one of { } ( ) ; and one of the six keywords.
Structured(s) ==
    /\ \E i \in 1..Len(s) : s[i] \in {"{", "}", "(", ")", ";"}
    /\ \E i \in 1..Len(s) :
          Includes(s[i]) \cap {"function", "class", "const", "def", "public", "private"} # {}

\* C23: detectInputType gives isCode = true and the language of the first
\* signature, in list order, that the text matches; without a match isCode is
\* true exactly when the text holds one of { } ( ) ; and one of the keywords
\* function, class, const, def, public, private, and the language is
\* javascript; otherwise the text is not code.  (Seen through analyzeText:
\* isCodeInput is the detector's isCode unless criteria 'code' forces it, and the
\* code prompt carries the detector's language unless options.language is given.)
C23_FirstSignatureWins ==
    Prompted =>
        LET req == requests[1]
            hits == Signatures(req.text.str)
            code == hits # {} \/ Structured(req.text.str)
        IN  /\ req.options.criteria # Some("code") => req.isCodeInput = code
            /\ req.prompt.kind = "code" /\ req.options.language = None =>
                  req.prompt.language =
                      Some(IF hits # {} THEN codePatterns[MinOf(hits)].language
                           ELSE "javascript")

\* A text that matches the javascript and the python signature went to the
\* code prompt as javascript.
C23_TwoSignatures ==
    /\ Prompted
    /\ requests[1].options = NoOptions
    /\ {1, 2} \subseteq Signatures(requests[1].text.str)
    /\ requests[1].prompt.language = Some("javascript")

\* The parser that produced a result, told by its strengths placeholder.
ParserKind(result) ==
    CASE result.strengths = <<<<"Code structure is present">>>> -> "code"
      [] result.strengths = <<<<"Text structure is present">>>> -> "generic"
      [] OTHER -> "none"

\* C24: analyzeText runs in code mode exactly when options.criteria is 'code'
\* or the detector takes the text for code; the prompt and the parser are of the
\* same kind; the generic prompt is never built with criteria 'code'; an absent
\* maxScore is 100 and an absent analysisType is 'all', for the prompt and for
\* the parser.
C24_ModeAgrees ==
    Prompted =>
        LET req == requests[1]
            codeMode == \/ req.options.criteria = Some("code")
                        \/ Signatures(req.text.str) # {}
                        \/ Structured(req.text.str)
            max == IF req.options.maxScore = None THEN Num(100) ELSE req.options.maxScore[1]
        IN  /\ req.prompt.kind = (IF codeMode THEN "code" ELSE "generic")
            /\ req.prompt.kind = "generic" =>
                  req.prompt.criteria \notin {None, Some("code")}
            /\ req.prompt.maxScore = max
            /\ req.prompt.kind = "code" =>
                  req.prompt.analysisType =
                      (IF req.options.analysisType = None THEN Some("all")
                       ELSE req.options.analysisType)
            /\ req.pc = "done" /\ req.upstream.kind = "text" =>
                  /\ req.sent[1].status = 200
                  /\ ParserKind(req.sent[1].json) = req.prompt.kind
                  /\ req.sent[1].json.score = (IF Num(150) <= max THEN Num(150) ELSE max)

\* A text that the detector does not take for code was analysed in code mode
\* because of criteria 'code', with the default maxScore.
C24_ForcedCodeMode ==
    /\ requests[1].pc = "done"
    /\ requests[1].text = Str(<<"hello">>)
    /\ requests[1].options.criteria = Some("code")
    /\ requests[1].sent[1].status = 200
    /\ ParserKind(requests[1].sent[1].json) = "code"
    /\ requests[1].sent[1].json.score = Num(100)

(***************************************************************************)
(* The two parsers side by side                                            *)
(***************************************************************************)
\* The markers of the generic format, a bullet line and a plain line.
SharedLines ==
    {<<"SCORE:", " ", "7", "5">>,
     <<"CATEGORY:", " ", "x">>,
     <<"FEEDBACK:", " ", "good">>,
     <<"STRENGTHS:">>,
     <<"IMPROVEMENTS:">>,
     <<"-", " ", "good">>,
     <<"good">>}

MaxSharedLines == 3

InitShared == ParserStart(Replies(SharedLines, MaxSharedLines), MaxScores) /\ NoServer

SpecShared == InitShared /\ [][ParsersNext]_vars

\* C25: on a reply without the markers CORRECTED_CODE:, OPTIMIZED_CODE: and
\* CODE_ISSUES:, and for every maxScore, the two parsers return the same score
\* and category, and the same feedback, strengths and improvements wherever
\* these are taken from the reply and not a default.
C25_SameAlgorithm ==
    LET g == parsed.generic[1].result
        c == parsed.code[1].result
        same(a, b, da, db) == a # da /\ b # db => a = b
    IN  /\ BothParsed
        /\ \A i \in 1..Len(responseText) :
              Lower(responseText[i]) \notin {"corrected_code:", "optimized_code:", "code_issues:"}
        => /\ g.score = c.score
           /\ g.category = c.category
           /\ same(g.feedback, c.feedback, <<"Analysis completed successfully">>,
                   <<"Code analysis completed successfully">>)
           /\ same(g.strengths, c.strengths, <<<<"Text structure is present">>>>,
                   <<<<"Code structure is present">>>>)
           /\ same(g.improvements, c.improvements, <<<<"Consider reviewing for clarity">>>>,
                   <<<<"Consider reviewing for best practices">>>>)

(***************************************************************************)
(* The order of the steps of POST /api/summarize                           *)
(***************************************************************************)
\* C26: in POST /api/summarize the insert is issued only at the step where the
\* AI call returns a summary, so a request whose AI call failed has no insert
\* and no record; nothing is sent while the AI call or the insert is pending;
\* and the 200 response is sent at the step where the insert completes and
\* carries the record that this step has stored.
C26_CallWriteRespond ==
    [][\A r \in ReqIds :
          requests[r].route = "summarize" =>
              /\ requests'[r].dbWrites # requests[r].dbWrites =>
                    /\ requests[r].pc = "awaitAI" /\ requests[r].aiCalls = 1
                    /\ requests'[r].upstream.kind = "text"
                    /\ requests'[r].pc = "awaitDB"
              /\ UpstreamFailed(r) => requests[r].dbWrites = 0
              /\ requests[r].pc \in {"awaitAI", "awaitDB"} => requests[r].sent = <<>>
              /\ requests[r].sent = <<>> /\ requests'[r].sent # <<>>
                      /\ requests'[r].sent[1].status = 200 =>
                    /\ requests[r].pc = "awaitDB"
                    /\ summaries' = Append(summaries, requests'[r].sent[1].json)
                    /\ requests'[r].sent[1].json.outputText = requests[r].upstream.text
              /\ summaries' # summaries /\ requests'[r] # requests[r] =>
                    requests'[r].sent[1].status = 200]_vars

\* One summarize request was answered with its stored record, another was
\* answered 500 after its AI call failed, without an insert.
C26_StoredAndFailed ==
    \E r, q \in ReqIds :
        /\ r \in SummarizeOK /\ Len(summaries) = 1
        /\ requests[r].sent[1].json = summaries[1]
        /\ requests[q].route = "summarize" /\ requests[q].pc = "done"
        /\ UpstreamFailed(q) /\ requests[q].dbWrites = 0

(***************************************************************************)
(* The sections a prompt asks for                                          *)
(***************************************************************************)
\* C27: the code prompt asks for a CORRECTED_CODE: block exactly when
\* analysisType is 'correct' or 'all' and for an OPTIMIZED_CODE: block exactly
\* when it is 'optimize' or 'all'; it asks for SCORE, CATEGORY, FEEDBACK,
\* STRENGTHS, IMPROVEMENTS and CODE_ISSUES whatever the analysisType; the
\* generic prompt asks for the five sections and for no code section.
C27_PromptSections ==
    Prompted =>
        LET prompt == requests[1].prompt
            given == requests[1].options.analysisType
            type == IF given = None THEN "all" ELSE given[1]
            five == {"SCORE:", "CATEGORY:", "FEEDBACK:", "STRENGTHS:", "IMPROVEMENTS:"}
        IN  IF prompt.kind = "code"
                THEN /\ "CORRECTED_CODE:" \in prompt.sections <=> type \in {"correct", "all"}
                     /\ "OPTIMIZED_CODE:" \in prompt.sections <=> type \in {"optimize", "all"}
                     /\ five \cup {"CODE_ISSUES:"} \subseteq prompt.sections
                ELSE /\ five \subseteq prompt.sections
                     /\ prompt.sections \cap {"CORRECTED_CODE:", "OPTIMIZED_CODE:", "CODE_ISSUES:"}
                            = {}

\* A code prompt built for analysisType 'correct': the corrected block is asked
\* for, the optimized one is not.
C27_CorrectOnly ==
    /\ requests[1].prompt.kind = "code"
    /\ requests[1].options.analysisType = Some("correct")
    /\ "CORRECTED_CODE:" \in requests[1].prompt.sections
    /\ "OPTIMIZED_CODE:" \notin requests[1].prompt.sections

(***************************************************************************)
(* Calls with equal arguments                                              *)
(***************************************************************************)
\* The /analyze requests whose prompt has been built.
Built == {r \in ReqIds : requests[r].route = "analyze"
                            /\ requests[r].prompt.kind \in {"code", "generic"}}

\* The /analyze requests whose reply has been parsed.
Parsed == {r \in Built : requests[r].pc = "done" /\ requests[r].upstream.kind = "text"}

CallPending(req) ==
    \/ req.pc = "awaitAI" /\ req.aiCalls = 1 /\ req.upstream = NoOutcome
    \/ req.pc = "awaitDB" /\ req.dbWrites = 1 /\ req.upstream.kind = "text"
    \/ req.pc = "awaitOCR" /\ req.ocrCalls = 1 /\ req.ocr = NoOutcome

\* C29: a request has at most one response, and it has one as soon as none of
\* its upstream calls is pending: nothing is sent after a 400 or after a success,
\* and a request that has arrived is without a response only while its AI call,
\* its OCR call or its insert is pending.
C29_OneResponse ==
    \A r \in ReqIds :
        /\ Len(requests[r].sent) <= 1
        /\ requests[r].pc # "idle" =>
              (requests[r].sent = <<>> <=> CallPending(requests[r]))
        /\ requests[r].pc = "idle" => requests[r].sent = <<>>

\* A request refused with 400 and a request answered 200, each with its one
\* response.
C29_RefusedAndServed ==
    \E r, q \in ReqIds :
        /\ requests[r].pc = "done" /\ Len(requests[r].sent) = 1
        /\ requests[r].sent[1].status = 400
        /\ requests[q].pc = "done" /\ Len(requests[q].sent) = 1
        /\ requests[q].sent[1].status = 200 /\ requests[q].route = "summarize"

(***************************************************************************)
(* The frontend: the App component and its Analyze button                  *)
(***************************************************************************)

\* The most API calls the page makes in one run.
MaxCalls == 2

\* What the user types into the text area.
InputTexts == {<<>>, <<" ">>, <<"h", "i">>}

\* The MIME types of the files the user drops or picks.
FileTypes == {"image/png", "text/plain"}

\* The bodies the backend answers with, as the page keeps them.
ResponseBodies == {[feedback |-> <<"good">>], [feedback |-> <<"Screenshot analysis complete.">>]}

\* How a fetch ends: rejected (no connection), or resolved with a status
\* that is ok or not and a JSON body.
FetchResults ==
    {[rejected |-> TRUE, ok |-> FALSE, json |-> ErrorFeedback],
     [rejected |-> FALSE, ok |-> FALSE, json |-> ErrorFeedback]}
    \cup {[rejected |-> FALSE, ok |-> TRUE, json |-> body] : body \in ResponseBodies}

\* The api helpers after their fetch: throw unless response.ok, else response.json().
ApiResult(api, fetched) ==
    IF fetched.rejected
        THEN [threw |-> TRUE, message |-> <<"fetch failed">>, result |-> None]
    ELSE IF ~fetched.ok
        THEN [threw |-> TRUE,
              message |-> IF api = "analyzeImage" THEN <<"Failed to analyze image">>
                                                  ELSE <<"Failed to analyze text">>,
              result |-> None]
    ELSE Returned(Some(fetched.json))

\* onChange of the text area, which is rendered outside the screenshot mode
SetInputText(text) ==
    /\ app.analysisType # "screenshot"
    /\ app' = [app EXCEPT !.inputText = text]
    /\ UNCHANGED <<parserVars, requests, summaries, nextId, now>>

\* the three mode buttons
SetAnalysisType(type) ==
    /\ app' = [app EXCEPT !.analysisType = type]
    /\ UNCHANGED <<parserVars, requests, summaries, nextId, now>>

\* The upload zone is rendered in the screenshot mode while no image is
\* kept; handleImageUpload keeps a file only when its type starts with image/
handleImageUpload(fileType) ==
    /\ app.analysisType = "screenshot" /\ ~app.uploadedImage
    /\ app' = IF fileType = "image/png" THEN [app EXCEPT !.uploadedImage = TRUE] ELSE app
    /\ UNCHANGED <<parserVars, requests, summaries, nextId, now>>

\* The remove button is rendered next to the preview of the kept image.
removeImage ==
    /\ app.analysisType = "screenshot" /\ app.uploadedImage
    /\ app' = [app EXCEPT !.uploadedImage = FALSE]
    /\ UNCHANGED <<parserVars, requests, summaries, nextId, now>>

\* The disabled attribute of the Analyze button, without its loading part.
AnalyzeDisabledWhileIdle ==
    IF app.analysisType = "screenshot" THEN ~app.uploadedImage
                                       ELSE Trim(app.inputText) = <<>>

\* The disabled attribute of the Analyze button.
AnalyzeDisabled ==
    \/ app.loading
    \/ IF app.analysisType = "screenshot" THEN ~app.uploadedImage
                                          ELSE Trim(app.inputText) = <<>>

\* The call handleAnalyze makes for the state it runs in.
ApiCallOf(state) ==
    IF state.analysisType = "screenshot" /\ state.uploadedImage
        THEN [api |-> "analyzeImage", text |-> <<>>, options |-> NoOptions]
    ELSE IF state.analysisType = "code"
        THEN [api |-> "analyzeText", text |-> state.inputText,
              options |-> [NoOptions EXCEPT !.criteria = Some("code"),
                                            !.analysisType = Some("all"),
                                            !.language = Some("javascript")]]
    ELSE [api |-> "analyzeText", text |-> state.inputText,
          options |-> [NoOptions EXCEPT !.criteria = Some("writing")]]

\* A click on the enabled Analyze button runs handleAnalyze up to its await:
\* the guard, setLoading(true), setResult(null) and the api call.
handleAnalyze ==
    /\ ~AnalyzeDisabled
    /\ app.calls < MaxCalls
    /\ ~(Trim(app.inputText) = <<>> /\ ~app.uploadedImage)
    /\ app' = [app EXCEPT !.loading = TRUE,
                          !.result = None,
                          !.pending = Append(@, ApiCallOf(app)),
                          !.calls = @ + 1]
    /\ UNCHANGED <<parserVars, requests, summaries, nextId, now>>

Without(seq, i) == [k \in 1..(Len(seq) - 1) |-> IF k < i THEN seq[k] ELSE seq[k + 1]]

\* handleAnalyze after its await: setResult(res), or the catch block's
\* setResult of the error object, and then setLoading(false).
handleAnalyzeSettled(i, fetched) ==
    /\ i \in 1..Len(app.pending)
    /\ LET outcome == ApiResult(app.pending[i].api, fetched)
       IN  app' = [app EXCEPT !.result = IF outcome.threw THEN Some(ErrorFeedback)
                                                          ELSE outcome.result,
                              !.loading = FALSE,
                              !.pending = Without(@, i)]
    /\ UNCHANGED <<parserVars, requests, summaries, nextId, now>>

AppNext ==
    \/ \E text \in InputTexts : SetInputText(text)
    \/ \E type \in {"text", "code", "screenshot"} : SetAnalysisType(type)
    \/ \E fileType \in FileTypes : handleImageUpload(fileType)
    \/ removeImage
    \/ handleAnalyze
    \/ \E i \in 1..MaxCalls, fetched \in FetchResults : handleAnalyzeSettled(i, fetched)

InitApp == NoServer /\ ParserIdle

SpecApp == InitApp /\ [][AppNext]_vars

\* A step of handleAnalyze that starts a call, and one that ends a call.
CallStarted(before, after) == after.calls # before.calls

CallSettled(before, after) == Len(after.pending) < Len(before.pending)

\* C30: handleAnalyze sends no request when the input text is blank and no
\* image is uploaded; otherwise it sets loading to true and result to null
\* before exactly one API call; once that call settles, by success or by
\* failure, loading is false and result is the API response or the fixed
\* error-feedback object, never null; and loading is true whenever a call
\* started by handleAnalyze is still pending.
C30_LoadingBracketsTheCall ==
    /\ [](app.pending # <<>> => app.loading)
    /\ [][/\ CallStarted(app, app') =>
                /\ ~(Trim(app.inputText) = <<>> /\ ~app.uploadedImage)
                /\ app'.calls = app.calls + 1
                /\ Len(app'.pending) = Len(app.pending) + 1
                /\ app'.loading /\ app'.result = None
          /\ CallSettled(app, app') =>
                /\ ~app'.loading
                /\ app'.result # None
                /\ app'.result \in {Some(body) : body \in ResponseBodies \cup {ErrorFeedback}}]_vars

\* Two calls were made, the second failed, and the text area is blank again
\* with no image: the error object is shown and nothing is loading.
C30_FailedThenBlank ==
    /\ app.calls = 2 /\ app.pending = <<>>
    /\ ~app.loading /\ app.result = Some(ErrorFeedback)
    /\ Trim(app.inputText) = <<>> /\ ~app.uploadedImage

====
